---- MODULE Spec2Model ----
(***************************************************************************)
(* MySQLens anti-hallucination core: the response validator                *)
(* (backend/services/llm_validator.py), the schema context pruner          *)
(* (backend/services/context_pruner.py), the model router                  *)
(* (backend/services/model_router.py) and the analysis pipeline that       *)
(* joins them (backend/services/llm_service.py).                           *)
(*                                                                         *)
(* Text is a sequence of one-character strings, so that strip, upper,      *)
(* lower, split, join, substring search and the regular expressions of     *)
(* the code are computed character by character.  A Python value is a      *)
(* record tagged by its type in field t.                                   *)
(***************************************************************************)
EXTENDS Integers, Sequences, FiniteSets, TLC

(***************************************************************************)
(* Text                                                                    *)
(***************************************************************************)
LowerLetters == <<"a","b","c","d","e","f","g","h","i","j","k","l","m","n","o","p","q","r","s","t","u","v","w","x","y","z">>
UpperLetters == <<"A","B","C","D","E","F","G","H","I","J","K","L","M","N","O","P","Q","R","S","T","U","V","W","X","Y","Z">>
Digits == <<"0","1","2","3","4","5","6","7","8","9">>

\* the grave accent that quotes a MySQL identifier (the one character a TLA+ string
\* cannot hold)
Backtick == "grave"

Range(s) == {s[i] : i \in DOMAIN s}

LetterIndex(letters, c) == CHOOSE i \in 1..Len(letters) : letters[i] = c

LowerSet == Range(LowerLetters)
UpperSet == Range(UpperLetters)
DigitSet == Range(Digits)
WordSet == LowerSet \cup UpperSet \cup DigitSet \cup {"_"}

ToUpper == [c \in LowerSet |-> UpperLetters[LetterIndex(LowerLetters, c)]]
ToLower == [c \in UpperSet |-> LowerLetters[LetterIndex(UpperLetters, c)]]

\* str.upper() and str.lower(), one character
UpperChar(c) == IF c \in LowerSet THEN ToUpper[c] ELSE c
LowerChar(c) == IF c \in UpperSet THEN ToLower[c] ELSE c

Upper(s) == [i \in 1..Len(s) |-> UpperChar(s[i])]
Lower(s) == [i \in 1..Len(s) |-> LowerChar(s[i])]

\* the characters str.strip() removes and the regular expression class \s matches
IsSpace(c) == c \in {" ", "\n", "\t"}
\* the regular expression class \w and [a-zA-Z0-9_]
IsWord(c) == c \in WordSet

RECURSIVE LStrip(_)
LStrip(s) == IF s = <<>> THEN s ELSE IF IsSpace(Head(s)) THEN LStrip(Tail(s)) ELSE s

RECURSIVE RStrip(_)
RStrip(s) == IF s = <<>> THEN s ELSE IF IsSpace(s[Len(s)]) THEN RStrip(SubSeq(s, 1, Len(s) - 1)) ELSE s

Strip(s) == RStrip(LStrip(s))

StartsWith(s, p) == Len(s) >= Len(p) /\ SubSeq(s, 1, Len(p)) = p

MatchAt(s, i, p) == i >= 1 /\ i + Len(p) - 1 <= Len(s) /\ SubSeq(s, i, i + Len(p) - 1) = p

\* p in s
Contains(s, p) == \E i \in 1..(Len(s) + 1) : MatchAt(s, i, p)

\* the position of the k-th separator c in s; 0 before the first, Len(s) + 1 after the last
SplitAt(s, c, k) ==
    LET seps == {i \in DOMAIN s : s[i] = c}
    IN IF k = 0 THEN 0
       ELSE IF k > Cardinality(seps) THEN Len(s) + 1
       ELSE CHOOSE i \in seps : Cardinality({j \in seps : j <= i}) = k

\* s.split(c) for a one-character separator c
Split(s, c) ==
    [k \in 1..(Cardinality({i \in DOMAIN s : s[i] = c}) + 1) |->
        SubSeq(s, SplitAt(s, c, k - 1) + 1, SplitAt(s, c, k) - 1)]

\* sep.join(parts)
RECURSIVE Join(_, _)
Join(parts, sep) ==
    IF parts = <<>> THEN <<>>
    ELSE IF Len(parts) = 1 THEN parts[1]
    ELSE parts[1] \o sep \o Join(Tail(parts), sep)

\* the separator class [:\s] of the schema regular expressions
IsSep(c) == c = ":" \/ IsSpace(c)

\* the length of the longest run of [:\s] characters starting at i
RECURSIVE SepRun(_, _)
SepRun(s, i) == IF i <= Len(s) /\ IsSep(s[i]) THEN 1 + SepRun(s, i + 1) ELSE 0

\* the length of the longest run of \w characters starting at i
RECURSIVE WordRun(_, _)
WordRun(s, i) == IF i <= Len(s) /\ IsWord(s[i]) THEN 1 + WordRun(s, i + 1) ELSE 0

\* the length of the longest run of \s characters starting at i
RECURSIVE SpaceRun(_, _)
SpaceRun(s, i) == IF i <= Len(s) /\ IsSpace(s[i]) THEN 1 + SpaceRun(s, i + 1) ELSE 0

Min(a, b) == IF a < b THEN a ELSE b
Max(a, b) == IF a > b THEN a ELSE b

(***************************************************************************)
(* Python values                                                           *)
(***************************************************************************)
PyNone == [t |-> "none"]
PyInt(n) == [t |-> "int", v |-> n]
\* a finite float, in tenths: PyFloat(857) is 85.7
PyFloat(tenths) == [t |-> "float", v |-> tenths]
PyInf == [t |-> "inf"]
PyNaN == [t |-> "nan"]
PyStr(s) == [t |-> "str", v |-> s]
PyList(items) == [t |-> "list", v |-> items]
PyDict(d) == [t |-> "dict", v |-> d]

EmptyDict == [k \in {} |-> PyNone]
\* d[k] = x
DictSet(d, k, x) == [y \in DOMAIN d \cup {k} |-> IF y = k THEN x ELSE d[y]]
\* the mapping d without the key k
Without(d, k) == [y \in DOMAIN d \ {k} |-> d[y]]
\* d.get(k, default)
DictGet(d, k, default) == IF k \in DOMAIN d THEN d[k] ELSE default

\* bool(x)
Truthy(x) ==
    CASE x.t = "none" -> FALSE
      [] x.t = "int" -> x.v # 0
      [] x.t = "bool" -> x.v
      [] x.t = "float" -> x.v # 0
      [] x.t \in {"inf", "nan"} -> TRUE
      [] x.t = "str" -> x.v # <<>>
      [] x.t = "list" -> x.v # <<>>
      [] x.t = "dict" -> DOMAIN x.v # {}

\* the decimal digits of a natural number
RECURSIVE NatText(_)
NatText(n) == IF n < 10 THEN <<Digits[n + 1]>> ELSE Append(NatText(n \div 10), Digits[(n % 10) + 1])

\* str(x), for the values a list field holds
Str(x) ==
    CASE x.t = "str" -> x.v
      [] x.t = "int" -> IF x.v < 0 THEN <<"-">> \o NatText(-x.v) ELSE NatText(x.v)
      [] x.t = "none" -> <<"N","o","n","e">>
      [] x.t = "bool" -> IF x.v THEN <<"T","r","u","e">> ELSE <<"F","a","l","s","e">>
      [] OTHER -> <<"<","o","b","j","e","c","t",">">>

PyBool(b) == [t |-> "bool", v |-> b]

\* one entry of the warnings list: which message, and the name it interpolates
Warning(kind, about) == [kind |-> kind, about |-> about]

(***************************************************************************)
(* LLMValidator: the per-field checks                                      *)
(***************************************************************************)
required_fields == <<"score", "bottlenecks", "recommendations">>

\* confidence is kept in millionths, so that every product of multipliers is exact
ConfidenceOne == 1000000
\* the multipliers, in tenths
StructureMultiplier == 5
ScoreMultiplier == 8
BottlenecksMultiplier == 9
RecommendationsMultiplier == 9
IndexMultiplier == 7
RewriteMultiplier == 6

\* the multiplier divides instead of multiplying
TimesDivides(confidence, tenths) == (confidence * 10) \div tenths

\* confidence *= tenths / 10
Times(confidence, tenths) == (confidence * tenths) \div 10

\* _validate_structure: (valid, warnings)
ValidateStructure(analysis) ==
    LET missing == SelectSeq(required_fields, LAMBDA f : f \notin DOMAIN analysis)
    IN [valid |-> missing = <<>>,
        warnings |-> [i \in 1..Len(missing) |-> Warning("missing_required_field", <<missing[i]>>)]]

\* the value of a digit string
RECURSIVE DigitsValue(_)
DigitsValue(s) ==
    IF s = <<>> THEN 0
    ELSE 10 * DigitsValue(SubSeq(s, 1, Len(s) - 1)) + (LetterIndex(Digits, s[Len(s)]) - 1)

\* int(text): surrounding whitespace and one sign are accepted, then digits only
ParseInt(text) ==
    LET s == Strip(text)
        signed == s # <<>> /\ Head(s) \in {"+", "-"}
        body == IF signed THEN Tail(s) ELSE s
    IN IF body # <<>> /\ \A i \in 1..Len(body) : body[i] \in DigitSet
       THEN [err |-> "none", v |-> IF signed /\ Head(s) = "-" THEN -DigitsValue(body) ELSE DigitsValue(body)]
       ELSE [err |-> "ValueError", v |-> 0]

\* int(x): the integer, or the exception int raises
IntOf(x) ==
    CASE x.t = "int" -> [err |-> "none", v |-> x.v]
      [] x.t = "bool" -> [err |-> "none", v |-> IF x.v THEN 1 ELSE 0]
      [] x.t = "float" -> [err |-> "none", v |-> IF x.v >= 0 THEN x.v \div 10 ELSE -((-x.v) \div 10)]
      [] x.t = "inf" -> [err |-> "OverflowError", v |-> 0]
      [] x.t = "nan" -> [err |-> "ValueError", v |-> 0]
      [] x.t = "str" -> ParseInt(x.v)
      [] OTHER -> [err |-> "TypeError", v |-> 0]

\* _validate_score: (valid, score), or the exception its except clause lets through
ValidateScore(score) ==
    IF score.t = "none" THEN [raised |-> FALSE, valid |-> FALSE, value |-> 50]
    ELSE LET n == IntOf(score)
         IN CASE n.err \in {"ValueError", "TypeError"} -> [raised |-> FALSE, valid |-> FALSE, value |-> 50]
              [] n.err = "OverflowError" -> [raised |-> TRUE, valid |-> FALSE, value |-> 0]
              [] n.v < 0 \/ n.v > 100 -> [raised |-> FALSE, valid |-> FALSE, value |-> Max(0, Min(100, n.v))]
              [] OTHER -> [raised |-> FALSE, valid |-> TRUE, value |-> n.v]

max_items == 10

\* _validate_list_field: (valid, sanitized list)
ValidateListField(field_value) ==
    IF field_value.t # "list"
    THEN IF field_value.t = "str"
         THEN [valid |-> FALSE, value |-> PyList(<<field_value>>)]
         ELSE [valid |-> FALSE, value |-> PyList(<<>>)]
    ELSE LET kept == SelectSeq(field_value.v, LAMBDA item : Truthy(item) /\ Strip(Str(item)) # <<>>)
             sanitized == [i \in 1..Len(kept) |-> PyStr(Strip(Str(kept[i])))]
         IN IF Len(sanitized) > max_items
            THEN [valid |-> FALSE, value |-> PyList(SubSeq(sanitized, 1, max_items))]
            ELSE [valid |-> TRUE, value |-> PyList(sanitized)]

(***************************************************************************)
(* The SQL texts of the model, and what the two SQL parsers the code calls *)
(* (sqlparse in the validator, sqlglot in the pruner) make of each.        *)
(***************************************************************************)
sql_users_by_id == <<"S","E","L","E","C","T"," ","*"," ","F","R","O","M"," ","u","s","e","r","s"," ","W","H","E","R","E"," ","i","d"," ","="," ","1">>
sql_join == <<"S","E","L","E","C","T"," ","*"," ","F","R","O","M"," ","u","s","e","r","s"," ","J","O","I","N"," ","O","r","d","e","r","s"," ","O","N"," ","u","s","e","r","s",".","i","d"," ","="," ","O","r","d","e","r","s",".","u","s","e","r","_","i","d">>
sql_id_from_users == <<"S","E","L","E","C","T"," ","i","d"," ","F","R","O","M"," ","u","s","e","r","s"," ","W","H","E","R","E"," ","i","d"," ","="," ","1">>
sql_from_orders == <<"s","e","l","e","c","t"," ","*"," ","f","r","o","m"," ","o","r","d","e","r","s">>
sql_drop == <<"D","R","O","P"," ","T","A","B","L","E"," ","u","s","e","r","s">>
sql_select_then_drop == <<"S","E","L","E","C","T"," ","1",";"," ","D","R","O","P"," ","T","A","B","L","E"," ","u","s","e","r","s">>
sql_select_then_replace == <<"S","E","L","E","C","T"," ","*"," ","F","R","O","M"," ","u","s","e","r","s",";"," ","R","E","P","L","A","C","E"," ","I","N","T","O"," ","u","s","e","r","s"," ","V","A","L","U","E","S"," ","(","1",")">>
sql_updated_at == <<"S","E","L","E","C","T"," ","u","p","d","a","t","e","d","_","a","t"," ","F","R","O","M"," ","u","s","e","r","s">>
sql_select_1 == <<"S","E","L","E","C","T"," ","1">>
sql_columns_users == <<"S","E","L","E","C","T"," ","i","d",","," ","e","m","a","i","l"," ","F","R","O","M"," ","u","s","e","r","s">>
sql_columns_customers == <<"S","E","L","E","C","T"," ","i","d",","," ","e","m","a","i","l"," ","F","R","O","M"," ","c","u","s","t","o","m","e","r","s">>
sql_broken == <<"S","E","L","E","C","T"," ","*"," ","F","R","O","M"," ","u","s","e","r","s"," ","J","O","I","N"," ",Backtick,"O","r","d","e","r","s",Backtick," ","W","H","E","R","E"," ","(">>

\* sqlparse.parse(text): the real names of the Identifier tokens (and of the members
\* of the IdentifierList tokens) at the top level of the statements of the text
SqlparseNames(text) ==
    CASE text = sql_users_by_id -> {<<"u","s","e","r","s">>}
      [] text = sql_join -> {<<"u","s","e","r","s">>, <<"O","r","d","e","r","s">>}
      [] text = sql_id_from_users -> {<<"i","d">>, <<"u","s","e","r","s">>}
      [] text = sql_from_orders -> {<<"o","r","d","e","r","s">>}
      [] text = sql_drop -> {<<"u","s","e","r","s">>}
      [] text = sql_select_then_drop -> {<<"u","s","e","r","s">>}
      [] text = sql_select_then_replace -> {<<"u","s","e","r","s">>}
      [] text = sql_updated_at -> {<<"u","p","d","a","t","e","d","_","a","t">>, <<"u","s","e","r","s">>}
      [] text = sql_broken -> {<<"u","s","e","r","s">>, <<"O","r","d","e","r","s">>}
      [] text = sql_columns_users -> {<<"i","d">>, <<"e","m","a","i","l">>, <<"u","s","e","r","s">>}
      [] text = sql_columns_customers -> {<<"i","d">>, <<"e","m","a","i","l">>, <<"c","u","s","t","o","m","e","r","s">>}
      [] OTHER -> {}

\* _extract_tables_from_query of the validator
ValidatorQueryTables(query) == SqlparseNames(query)

\* _queries_seem_equivalent: at least half of the names of the two texts are shared
QueriesSeemEquivalent(original, rewrite) ==
    LET orig_tables == ValidatorQueryTables(original)
        rewrite_tables == ValidatorQueryTables(rewrite)
        overlap == Cardinality(orig_tables \cap rewrite_tables)
        total == Cardinality(orig_tables \cup rewrite_tables)
    IN ~(orig_tables # {} /\ rewrite_tables # {} /\ total > 0 /\ 2 * overlap < total)

dangerous_keywords == <<<<"D","R","O","P">>, <<"D","E","L","E","T","E">>, <<"U","P","D","A","T","E">>, <<"I","N","S","E","R","T">>, <<"T","R","U","N","C","A","T","E">>, <<"A","L","T","E","R">>>>

\* the rewrite with a dangerous keyword is reported but returned as it is
ValidateSqlRewriteKeepsDangerous(rewrite, original_query) ==
    IF ~Truthy(rewrite) \/ rewrite.t # "str"
    THEN [valid |-> FALSE, value |-> <<>>, warnings |-> <<Warning("rewrite_empty_or_invalid", <<>>)>>]
    ELSE LET text == Strip(rewrite.v)
             found == SelectSeq(dangerous_keywords, LAMBDA keyword : Contains(Upper(text), keyword))
         IN IF ~StartsWith(Upper(text), <<"S","E","L","E","C","T">>)
            THEN [valid |-> FALSE, value |-> <<>>, warnings |-> <<Warning("rewrite_not_select", <<>>)>>]
            ELSE IF found # <<>>
            THEN [valid |-> FALSE, value |-> text,
                  warnings |-> <<Warning("rewrite_dangerous_keyword", found[1])>>]
            ELSE IF ~QueriesSeemEquivalent(original_query, text)
            THEN [valid |-> FALSE, value |-> text, warnings |-> <<Warning("rewrite_differs", <<>>)>>]
            ELSE [valid |-> TRUE, value |-> text, warnings |-> <<>>]

\* _validate_sql_rewrite: (valid, sanitized rewrite, warnings)
ValidateSqlRewrite(rewrite, original_query) ==
    IF ~Truthy(rewrite) \/ rewrite.t # "str"
    THEN [valid |-> FALSE, value |-> <<>>, warnings |-> <<Warning("rewrite_empty_or_invalid", <<>>)>>]
    ELSE LET text == Strip(rewrite.v)
             upper_rewrite == Upper(text)
             parse_warnings == IF text = <<>> THEN <<Warning("rewrite_not_parsed", <<>>)>> ELSE <<>>
             found == SelectSeq(dangerous_keywords, LAMBDA keyword : Contains(upper_rewrite, keyword))
         IN IF ~StartsWith(Upper(Strip(text)), <<"S","E","L","E","C","T">>)
            THEN [valid |-> FALSE, value |-> <<>>,
                  warnings |-> Append(parse_warnings, Warning("rewrite_not_select", <<>>))]
            ELSE IF found # <<>>
            THEN [valid |-> FALSE, value |-> <<>>,
                  warnings |-> Append(parse_warnings, Warning("rewrite_dangerous_keyword", found[1]))]
            ELSE IF ~QueriesSeemEquivalent(original_query, text)
            THEN [valid |-> FALSE, value |-> text,
                  warnings |-> Append(parse_warnings, Warning("rewrite_differs", <<>>))]
            ELSE [valid |-> parse_warnings = <<>>, value |-> text, warnings |-> parse_warnings]

(***************************************************************************)
(* LLMValidator._extract_schema_info: the tables and columns of a schema   *)
(* context string                                                          *)
(***************************************************************************)
\* re.search(r'[Tt]able[:\s]+([a-zA-Z0-9_]+)', line) matches at position i
TableMatchAt(line, i) ==
    /\ line[i] \in {"T", "t"}
    /\ MatchAt(line, i + 1, <<"a","b","l","e">>)
    /\ SepRun(line, i + 5) >= 1
    /\ WordRun(line, i + 5 + SepRun(line, i + 5)) >= 1

\* the position of the leftmost match from i on, or 0
RECURSIVE TableSearch(_, _)
TableSearch(line, i) ==
    IF i > Len(line) THEN 0 ELSE IF TableMatchAt(line, i) THEN i ELSE TableSearch(line, i + 1)

\* group(1) of the leftmost match
TableMatchName(line) ==
    LET i == TableSearch(line, 1)
        from == i + 5 + SepRun(line, i + 5)
    IN SubSeq(line, from, from + WordRun(line, from) - 1)

\* re.search(r'[Cc]olumns[:\s]+(.+)', line) matches at position i: the separator run
\* gives its last character back to (.+) when nothing follows it
ColumnsMatchAt(line, i) ==
    /\ line[i] \in {"C", "c"}
    /\ MatchAt(line, i + 1, <<"o","l","u","m","n","s">>)
    /\ SepRun(line, i + 7) >= 1
    /\ (i + 7 + SepRun(line, i + 7) <= Len(line) \/ SepRun(line, i + 7) >= 2)

RECURSIVE ColumnsSearch(_, _)
ColumnsSearch(line, i) ==
    IF i > Len(line) THEN 0 ELSE IF ColumnsMatchAt(line, i) THEN i ELSE ColumnsSearch(line, i + 1)

\* group(1) of the leftmost match
ColumnsMatchText(line) ==
    LET i == ColumnsSearch(line, 1)
        from == i + 7 + SepRun(line, i + 7)
    IN IF from <= Len(line) THEN SubSeq(line, from, Len(line)) ELSE <<line[Len(line)]>>

\* [c.strip() for c in text.split(",")], as a set
StrippedParts(text) == {Strip(Split(text, ",")[i]) : i \in 1..Len(Split(text, ","))}

\* the loop over the lines: tables, columns (table -> set of column texts), current_table
RECURSIVE SchemaLoop(_, _, _, _)
SchemaLoop(lines, tables, columns, current_table) ==
    IF lines = <<>> THEN [tables |-> tables, columns |-> columns]
    ELSE LET line == Strip(Head(lines))
             is_table == Contains(Lower(line), <<"t","a","b","l","e",":">>) /\ TableSearch(line, 1) > 0
             current1 == IF is_table THEN <<TableMatchName(line)>> ELSE current_table
             tables1 == IF is_table THEN tables \cup {TableMatchName(line)} ELSE tables
             columns1 == IF is_table THEN DictSet(columns, TableMatchName(line), {}) ELSE columns
             is_columns == /\ current1 # <<>>
                           /\ Contains(Lower(line), <<"c","o","l","u","m","n","s",":">>)
                           /\ ColumnsSearch(line, 1) > 0
             columns2 == IF is_columns
                         THEN DictSet(columns1, current1[1], columns1[current1[1]] \cup StrippedParts(ColumnsMatchText(line)))
                         ELSE columns1
         IN SchemaLoop(Tail(lines), tables1, columns2, current1)

ExtractSchemaInfo(schema_context) ==
    IF ~Truthy(schema_context) THEN [tables |-> {}, columns |-> [k \in {} |-> {}]]
    ELSE SchemaLoop(Split(schema_context.v, "\n"), {}, [k \in {} |-> {}], <<>>)

(***************************************************************************)
(* LLMValidator._validate_indexes                                          *)
(***************************************************************************)
\* one pass of the loop body over idx: "raise" (idx.get("table").strip() on a value
\* that is no string), "skip" (continue) or "keep" (appended, with verified set)
CheckIndex(idx, info, query_tables) ==
    IF idx.t # "dict"
    THEN [outcome |-> "skip", valid |-> FALSE, idx |-> idx, warnings |-> <<Warning("invalid_index_format", <<>>)>>]
    ELSE IF "table" \notin DOMAIN idx.v \/ "columns" \notin DOMAIN idx.v
    THEN [outcome |-> "skip", valid |-> FALSE, idx |-> idx, warnings |-> <<Warning("index_missing_fields", <<>>)>>]
    ELSE IF idx.v["table"].t # "str"
    THEN [outcome |-> "raise", valid |-> FALSE, idx |-> idx, warnings |-> <<>>]
    ELSE LET table == Strip(idx.v["table"].v)
             given == idx.v["columns"]
         IN IF given.t \notin {"list", "str"}
            THEN [outcome |-> "skip", valid |-> FALSE, idx |-> idx,
                  warnings |-> <<Warning("invalid_columns_format", table)>>]
            ELSE LET columns == IF given.t = "list" THEN given.v
                                ELSE [i \in 1..Len(Split(given.v, ",")) |-> PyStr(Strip(Split(given.v, ",")[i]))]
                     unknown_table == info.tables # {} /\ table \notin info.tables /\ table \notin query_tables
                     idx1 == IF unknown_table
                             THEN DictSet(DictSet(idx.v, "verified", PyBool(FALSE)),
                                          "warning", PyStr(<<"T","a","b","l","e"," ","n","o","t"," ","f","o","u","n","d"," ","i","n"," ","s","c","h","e","m","a">>))
                             ELSE DictSet(idx.v, "verified", PyBool(TRUE))
                     invalid_columns ==
                         IF DOMAIN info.columns # {} /\ table \in DOMAIN info.columns
                         THEN SelectSeq([i \in 1..Len(columns) |-> Strip(Str(columns[i]))],
                                        LAMBDA col_str : col_str \notin info.columns[table])
                         ELSE <<>>
                     idx2 == IF invalid_columns # <<>>
                             THEN DictSet(DictSet(idx1, "verified", PyBool(FALSE)),
                                          "warning", PyStr(<<"C","o","l","u","m","n","s"," ","n","o","t"," ","f","o","u","n","d",":"," ">> \o Join(invalid_columns, <<","," ">>)))
                             ELSE idx1
                 IN [outcome |-> "keep",
                     valid |-> ~unknown_table /\ invalid_columns = <<>>,
                     idx |-> PyDict(idx2),
                     warnings |-> (IF unknown_table THEN <<Warning("table_may_not_exist", table)>> ELSE <<>>)
                                  \o (IF invalid_columns # <<>> THEN <<Warning("columns_do_not_exist", table)>> ELSE <<>>)]

\* the loop: st.given is the caller's list, whose index mappings are changed in place
RECURSIVE IndexLoop(_, _, _, _)
IndexLoop(k, st, info, query_tables) ==
    IF k > Len(st.given) THEN st
    ELSE LET c == CheckIndex(st.given[k], info, query_tables)
         IN IF c.outcome = "raise" THEN [st EXCEPT !.raised = TRUE]
            ELSE IndexLoop(k + 1,
                           [raised |-> FALSE,
                            valid |-> st.valid /\ c.valid,
                            sanitized |-> IF c.outcome = "keep" THEN Append(st.sanitized, c.idx) ELSE st.sanitized,
                            warnings |-> st.warnings \o c.warnings,
                            given |-> [st.given EXCEPT ![k] = c.idx]],
                           info, query_tables)

\* (valid, sanitized indexes, warnings), the caller's list afterwards, or raised
ValidateIndexes(indexes, schema_context, query_text) ==
    IF indexes.t # "list"
    THEN [raised |-> FALSE, valid |-> FALSE, sanitized |-> <<>>,
          warnings |-> <<Warning("indexes_not_a_list", <<>>)>>, given |-> <<>>]
    ELSE IndexLoop(1,
                   [raised |-> FALSE, valid |-> TRUE, sanitized |-> <<>>, warnings |-> <<>>, given |-> indexes.v],
                   ExtractSchemaInfo(schema_context), ValidatorQueryTables(query_text))

(***************************************************************************)
(* LLMValidator.validate_response                                          *)
(***************************************************************************)
\* a fallback that keeps the confidence of a clean result and warns of nothing
ErrorFallbackSilent ==
    [validated |-> FALSE, confidence |-> ConfidenceOne, warnings |-> <<>>,
     analysis |-> PyDict(EmptyDict), guardrails_applied |-> <<"error_fallback">>]

\* the dictionary of the except clause
ErrorFallback ==
    [validated |-> FALSE, confidence |-> 0, warnings |-> <<Warning("validation_error", <<>>)>>,
     analysis |-> PyDict(EmptyDict), guardrails_applied |-> <<"error_fallback">>]

\* steps 1 to 4 on the analysis mapping a: structure, score, bottlenecks, recommendations
CheckRequired(a) ==
    LET st == ValidateStructure(a)
        sc == ValidateScore(DictGet(a, "score", PyNone))
        bn == ValidateListField(DictGet(a, "bottlenecks", PyList(<<>>)))
        rc == ValidateListField(DictGet(a, "recommendations", PyList(<<>>)))
        c1 == IF st.valid THEN ConfidenceOne ELSE Times(ConfidenceOne, StructureMultiplier)
        c2 == IF sc.valid THEN c1 ELSE Times(c1, ScoreMultiplier)
        c3 == IF bn.valid THEN c2 ELSE Times(c2, BottlenecksMultiplier)
        c4 == IF rc.valid THEN c3 ELSE Times(c3, RecommendationsMultiplier)
    IN [raised |-> sc.raised,
        confidence |-> c4,
        warnings |-> (IF st.valid THEN <<>> ELSE st.warnings)
                     \o (IF sc.valid THEN <<>> ELSE <<Warning("score_invalid_or_missing", <<>>)>>),
        guardrails_applied |-> (IF st.valid THEN <<>> ELSE <<"structure_validation">>)
                               \o (IF sc.valid THEN <<>> ELSE <<"score_sanitization">>)
                               \o (IF bn.valid THEN <<>> ELSE <<"bottlenecks_sanitization">>)
                               \o (IF rc.valid THEN <<>> ELSE <<"recommendations_sanitization">>),
        analysis |-> DictSet(DictSet(DictSet(a, "score", PyInt(sc.value)), "bottlenecks", bn.value),
                             "recommendations", rc.value)]

\* step 5 on the state r of the call
CheckIndexes(r, query_text, schema_context) ==
    IF "indexes" \notin DOMAIN r.analysis THEN r
    ELSE LET ix == ValidateIndexes(r.analysis["indexes"], schema_context, query_text)
         IN IF ix.raised
            THEN [r EXCEPT !.raised = TRUE, !.analysis = DictSet(r.analysis, "indexes", PyList(ix.given))]
            ELSE [raised |-> FALSE,
                  confidence |-> IF ix.valid THEN r.confidence ELSE Times(r.confidence, IndexMultiplier),
                  warnings |-> r.warnings \o ix.warnings,
                  guardrails_applied |-> IF ix.valid THEN r.guardrails_applied
                                         ELSE Append(r.guardrails_applied, "index_validation"),
                  analysis |-> DictSet(r.analysis, "indexes", PyList(ix.sanitized))]

\* step 6 without the multiplication
CheckRewriteUnpenalised(r, query_text) ==
    IF "rewrite" \notin DOMAIN r.analysis \/ ~Truthy(r.analysis["rewrite"]) THEN r
    ELSE LET rw == ValidateSqlRewrite(r.analysis["rewrite"], query_text)
         IN [raised |-> FALSE,
             confidence |-> r.confidence,
             warnings |-> r.warnings \o rw.warnings,
             guardrails_applied |-> IF rw.valid THEN r.guardrails_applied
                                    ELSE Append(r.guardrails_applied, "sql_validation"),
             analysis |-> DictSet(r.analysis, "rewrite", PyStr(rw.value))]

\* step 6 on the state r of the call
CheckRewrite(r, query_text) ==
    IF "rewrite" \notin DOMAIN r.analysis \/ ~Truthy(r.analysis["rewrite"]) THEN r
    ELSE LET rw == ValidateSqlRewrite(r.analysis["rewrite"], query_text)
         IN [raised |-> FALSE,
             confidence |-> IF rw.valid THEN r.confidence ELSE Times(r.confidence, RewriteMultiplier),
             warnings |-> r.warnings \o rw.warnings,
             guardrails_applied |-> IF rw.valid THEN r.guardrails_applied
                                    ELSE Append(r.guardrails_applied, "sql_validation"),
             analysis |-> DictSet(r.analysis, "rewrite", PyStr(rw.value))]

\* the return of validate_response, from the state r5 of the call after step 5 and r6
\* after step 6 (the analysis mapping is sanitized in place and is the one the result
\* carries)
ValidatedResponse(llm_response, r5, r6) ==
    IF r5.raised
    THEN [result |-> ErrorFallback, response |-> DictSet(llm_response, "analysis", PyDict(r5.analysis))]
    ELSE [result |-> [validated |-> TRUE,
                      confidence |-> r6.confidence,
                      warnings |-> r6.warnings,
                      analysis |-> PyDict(r6.analysis),
                      guardrails_applied |-> r6.guardrails_applied],
          response |-> DictSet(llm_response, "analysis", PyDict(r6.analysis))]

\* step 6, from the state r5 of the call after step 5
ValidateRewriteStep(llm_response, r5, query_text) ==
    ValidatedResponse(llm_response, r5, CheckRewrite(r5, query_text))

\* steps 5 and 6, from the state r4 of the call after step 4
ValidateOptional(llm_response, r4, query_text, schema_context) ==
    IF r4.raised THEN [result |-> ErrorFallback, response |-> llm_response]
    ELSE ValidateRewriteStep(llm_response, CheckIndexes(r4, query_text, schema_context), query_text)

\* validate_response: the dictionary returned, and the caller's llm_response afterwards
ValidateResponse(llm_response, query_text, schema_context) ==
    IF DictGet(llm_response, "analysis", PyDict(EmptyDict)).t # "dict"
    THEN [result |-> ErrorFallback, response |-> llm_response]
    ELSE ValidateOptional(llm_response,
                          CheckRequired(DictGet(llm_response, "analysis", PyDict(EmptyDict)).v),
                          query_text, schema_context)

(***************************************************************************)
(* The validator as a state machine: a caller holds one llm_response and   *)
(* passes it to validate_response, at most MaxCalls times.                 *)
(***************************************************************************)
VARIABLES
    llm_response,     \* the caller's response mapping (validate_response changes it in place)
    query_text,       \* the query under analysis
    schema_context,   \* the schema string the response is validated against, or None
    given,            \* llm_response as it was when the latest call started
    validated,        \* what the latest call returned
    calls,            \* the number of calls made
    other_response,   \* a second response, validated against the same query and schema
    other_validated,  \* what validate_response returned for it
    query,            \* the query handed to the pruner
    full_schema,      \* the catalog: the (table name, table info) items of the mapping, in order
    execution_plan,   \* the EXPLAIN output, or None
    pruner_pc,        \* "start", then "returned" or "raised"
    pruned_schema,    \* the string prune_schema_context returned
    model_name,       \* the name of the configured model
    model_type,       \* the value of the ModelType detected, or "none"
    final_prompt,     \* the prompt build_prompt returned
    needs_extraction, \* the flag build_prompt returned
    raw_response,     \* the text the provider answered
    extracted,        \* what extract_response returned
    router_pc,        \* "start", "detected", "prompted", then "extracted" or "raised"
    settings,         \* the configuration: llm_provider, ollama_model, openai_model, api_key
    provider_outcome, \* what the provider does with the request
    format_hint,      \* the JSON format hint of the request: "json", "none", or "unsent"
    context_reduction, \* the metrics of estimate_context_reduction, or None
    result,           \* what analyze_query returned
    steps,            \* the steps analyze_query has taken, in order
    pipeline_pc       \* where analyze_query stands

validator_vars == <<llm_response, query_text, schema_context, given, validated, calls,
                    other_response, other_validated>>
pruner_vars == <<query, full_schema, execution_plan, pruner_pc, pruned_schema>>
router_vars == <<model_name, model_type, final_prompt, needs_extraction, raw_response, extracted, router_pc>>
pipeline_vars == <<settings, provider_outcome, format_hint, context_reduction, result, steps, pipeline_pc>>
vars == <<validator_vars, pruner_vars, router_vars, pipeline_vars>>

MaxCalls == 2
\* the length of the list that is over max_items
ManyItems == 12

\* a key the mapping does not hold
Absent == [t |-> "absent"]

\* the mapping of the keys whose value is not Absent
Mapping(all) == [k \in {f \in DOMAIN all : all[f] # Absent} |-> all[k]]

Index(table, columns) == PyDict([table |-> table, columns |-> columns])

ScoreInputs ==
    <<Absent, PyNone, PyInt(85), PyInt(150), PyInt(-5), PyStr(<<"a","b","c">>), PyFloat(1007), PyInf>>

BottleneckInputs ==
    <<Absent,
      PyList(<<PyStr(<<" ","f","u","l","l"," ","s","c","a","n"," ">>), PyStr(<<>>), PyNone, PyInt(7)>>),
      PyList([i \in 1..ManyItems |-> PyStr(<<"f","i","l","e","s","o","r","t">>)])>>

RecommendationInputs ==
    <<PyList(<<PyStr(<<"a","d","d"," ","a","n"," ","i","n","d","e","x">>)>>), PyStr(<<"a","d","d"," ","a","n"," ","i","n","d","e","x">>), PyStr(<<" "," ","x"," ">>), PyStr(<<>>)>>

IndexInputs ==
    <<Absent,
      PyList(<<Index(PyStr(<<"u","s","e","r","s">>), PyList(<<PyStr(<<"i","d">>)>>))>>),
      PyList(<<Index(PyStr(<<"g","h","o","s","t","_","t","a","b","l","e">>), PyList(<<PyStr(<<"x">>)>>))>>),
      PyList(<<Index(PyStr(<<"u","s","e","r","s">>), PyStr(<<"i","d",","," ","n","o","p","e">>))>>),
      PyList(<<Index(PyStr(<<" ","O","r","d","e","r","s"," ">>), PyList(<<PyStr(<<"u","s","e","r","_","i","d">>)>>))>>),
      PyList(<<Index(PyStr(<<"u","s","e","r","s">>), PyList(<<PyStr(<<"n","a","m","e">>)>>)), Index(PyInt(5), PyList(<<PyStr(<<"i","d">>)>>))>>),
      PyList(<<PyStr(<<"u","s","e","r","s","(","i","d",")">>),
               PyDict([table |-> PyStr(<<"g","h","o","s","t","_","t","a","b","l","e">>)]),
               Index(PyStr(<<"g","h","o","s","t","_","t","a","b","l","e">>), PyInt(1))>>),
      PyStr(<<"u","s","e","r","s","(","i","d",")">>)>>

RewriteInputs ==
    <<Absent,
      PyStr(<<>>),
      PyStr(sql_id_from_users),
      PyStr(<<" ">> \o sql_from_orders \o <<" ">>),
      PyStr(sql_drop),
      PyStr(sql_select_then_drop),
      PyStr(sql_select_then_replace),
      PyStr(sql_updated_at),
      PyInt(5),
      PyStr(sql_columns_customers)>>

QueryInputs == <<sql_users_by_id, sql_join, sql_columns_users>>

schema_one_line == <<"T","a","b","l","e",":"," ","u","s","e","r","s",","," ","C","o","l","u","m","n","s",":"," ","i","d",","," ","n","a","m","e">>
schema_blocks == <<"T","a","b","l","e",":"," ","u","s","e","r","s","\n","C","o","l","u","m","n","s",":"," ","i","d"," ","(","i","n","t",")",","," ","n","a","m","e"," ","(","v","a","r","c","h","a","r",")","\n","I","n","d","e","x","e","s",":"," ","P","R","I","M","A","R","Y"," ","(","i","d",")","\n">>

SchemaInputs == <<PyNone, PyStr(<<>>), PyStr(schema_one_line), PyStr(schema_blocks)>>

AnalysisOf(sc, bn, rc, ix, rw) ==
    PyDict(Mapping([score |-> ScoreInputs[sc], bottlenecks |-> BottleneckInputs[bn],
                    recommendations |-> RecommendationInputs[rc], indexes |-> IndexInputs[ix],
                    rewrite |-> RewriteInputs[rw]]))

\* what json.loads gives the pipeline as the analysis: a mapping, or another JSON value.
\* Every score, index list and rewrite is combined with a well-formed pair of lists, and
\* every pair of lists with a valid or missing score, no or a hallucinated index, and no
\* or a destructive rewrite.
AnalysisInputs ==
    {AnalysisOf(sc, 2, 1, ix, rw) :
        sc \in DOMAIN ScoreInputs, ix \in DOMAIN IndexInputs, rw \in DOMAIN RewriteInputs}
    \cup {AnalysisOf(sc, bn, rc, ix, rw) :
            sc \in {1, 3}, bn \in DOMAIN BottleneckInputs, rc \in DOMAIN RecommendationInputs,
            ix \in {1, 3}, rw \in {1, 5}}
    \cup {PyList(<<>>), PyDict(EmptyDict)}

NoResult == [t |-> "none"]

\* the pruner is not part of this specification
PrunerIdle ==
    /\ query = <<>>
    /\ full_schema = <<>>
    /\ execution_plan = PyNone
    /\ pruner_pc = "idle"
    /\ pruned_schema = <<>>

\* the router is not part of this specification
RouterIdle ==
    /\ model_name = <<>>
    /\ model_type = "none"
    /\ final_prompt = <<>>
    /\ needs_extraction = FALSE
    /\ raw_response = <<>>
    /\ extracted = NoResult
    /\ router_pc = "idle"

\* analyze_query is not part of this specification
PipelineIdle ==
    /\ settings = NoResult
    /\ provider_outcome = "none"
    /\ format_hint = "unsent"
    /\ context_reduction = PyNone
    /\ result = NoResult
    /\ steps = <<>>
    /\ pipeline_pc = "idle"

Init ==
    /\ \E a \in AnalysisInputs : llm_response = [success |-> TRUE, analysis |-> a]
    /\ \E q \in DOMAIN QueryInputs : query_text = QueryInputs[q]
    /\ \E s \in DOMAIN SchemaInputs : schema_context = SchemaInputs[s]
    /\ given = llm_response
    /\ validated = NoResult
    /\ calls = 0
    /\ other_response = NoResult
    /\ other_validated = NoResult
    /\ PrunerIdle
    /\ RouterIdle
    /\ PipelineIdle

\* validated = llm_validator.validate_response(llm_response, query_text, schema_context)
Validate ==
    /\ calls < MaxCalls
    /\ \E out \in {ValidateResponse(llm_response, query_text, schema_context)} :
          /\ validated' = out.result
          /\ llm_response' = out.response
    /\ given' = llm_response
    /\ calls' = calls + 1
    /\ UNCHANGED <<query_text, schema_context, other_response, other_validated, pruner_vars, router_vars, pipeline_vars>>

Next == Validate

Spec == Init /\ [][Next]_vars

(***************************************************************************)
(* Two responses validated against the same query and schema               *)
(***************************************************************************)
CompareInputs ==
    {AnalysisOf(sc, bn, 1, ix, rw) : sc \in {1, 3}, bn \in {2, 3}, ix \in {1, 3, 6}, rw \in {1, 4, 5}}

CompareInit ==
    /\ \E a \in CompareInputs : llm_response = [success |-> TRUE, analysis |-> a]
    /\ \E b \in CompareInputs : other_response = [success |-> TRUE, analysis |-> b]
    /\ query_text = sql_users_by_id
    /\ \E s \in {2, 3} : schema_context = SchemaInputs[s]
    /\ given = llm_response
    /\ validated = NoResult
    /\ calls = 0
    /\ other_validated = NoResult
    /\ PrunerIdle
    /\ RouterIdle
    /\ PipelineIdle

\* other_validated = llm_validator.validate_response(other_response, query_text, schema_context)
ValidateOther ==
    /\ other_response # NoResult
    /\ other_validated = NoResult
    /\ \E out \in {ValidateResponse(other_response, query_text, schema_context)} :
          /\ other_validated' = out.result
          /\ other_response' = out.response
    /\ UNCHANGED <<llm_response, query_text, schema_context, given, validated, calls, pruner_vars, router_vars, pipeline_vars>>

CompareNext == Validate \/ ValidateOther

SpecCompare == CompareInit /\ [][CompareNext]_vars

(***************************************************************************)
(* ContextPruner: table extraction                                         *)
(***************************************************************************)
sql_subquery == <<"S","E","L","E","C","T"," ","n","a","m","e"," ","F","R","O","M"," ","u","s","e","r","s"," ","W","H","E","R","E"," ","i","d"," ","I","N"," ","(","S","E","L","E","C","T"," ","u","s","e","r","_","i","d"," ","F","R","O","M"," ","o","r","d","e","r","s",")">>
sql_self_join == <<"S","E","L","E","C","T"," ","a",".","i","d"," ","F","R","O","M"," ","u","s","e","r","s"," ","a"," ","J","O","I","N"," ","u","s","e","r","s"," ","b"," ","O","N"," ","a",".","i","d"," ","="," ","b",".","i","d">>
sql_ghost == <<"S","E","L","E","C","T"," ","*"," ","F","R","O","M"," ","g","h","o","s","t","_","t","a","b","l","e">>
sql_broken_list == <<"S","E","L","E","C","T"," ","*"," ","F","R","O","M"," ","u","s","e","r","s",","," ","O","r","d","e","r","s"," ","W","H","E","R","E"," ","n","a","m","e"," ","="," ","'","x">>

\* sqlglot.parse_one(text, dialect="mysql"): whether the text parses and, if it does, the
\* names of the Table nodes of the tree (subqueries included, aliases resolved)
SqlglotTables(text) ==
    CASE text = sql_users_by_id -> [ok |-> TRUE, names |-> {<<"u","s","e","r","s">>}]
      [] text = sql_join -> [ok |-> TRUE, names |-> {<<"u","s","e","r","s">>, <<"O","r","d","e","r","s">>}]
      [] text = sql_from_orders -> [ok |-> TRUE, names |-> {<<"o","r","d","e","r","s">>}]
      [] text = sql_subquery -> [ok |-> TRUE, names |-> {<<"u","s","e","r","s">>, <<"o","r","d","e","r","s">>}]
      [] text = sql_self_join -> [ok |-> TRUE, names |-> {<<"u","s","e","r","s">>}]
      [] text = sql_ghost -> [ok |-> TRUE, names |-> {<<"g","h","o","s","t","_","t","a","b","l","e">>}]
      [] text = sql_select_1 -> [ok |-> TRUE, names |-> {}]
      [] text = sql_columns_users -> [ok |-> TRUE, names |-> {<<"u","s","e","r","s">>}]
      [] OTHER -> [ok |-> FALSE, names |-> {}]

\* re.match of KEYWORD\s+`?(\w+)`? at position i of the text
KeywordMatchAt(text, i, keyword) ==
    /\ MatchAt(text, i, keyword)
    /\ SpaceRun(text, i + Len(keyword)) >= 1
    /\ LET q == i + Len(keyword) + SpaceRun(text, i + Len(keyword))
           w == IF q <= Len(text) /\ text[q] = Backtick THEN q + 1 ELSE q
       IN WordRun(text, w) >= 1

\* where group(1) of the match at i starts, and the first position after the match
KeywordMatchWord(text, i, keyword) ==
    LET q == i + Len(keyword) + SpaceRun(text, i + Len(keyword))
    IN IF q <= Len(text) /\ text[q] = Backtick THEN q + 1 ELSE q

KeywordMatchEnd(text, i, keyword) ==
    LET w == KeywordMatchWord(text, i, keyword)
        e == w + WordRun(text, w)
    IN IF e <= Len(text) /\ text[e] = Backtick THEN e + 1 ELSE e

\* re.findall(pattern, text, re.IGNORECASE): the captured names of the matches that do
\* not overlap, from position i on
RECURSIVE FindAll(_, _, _)
FindAll(text, i, keyword) ==
    IF i > Len(text) THEN {}
    ELSE IF KeywordMatchAt(text, i, keyword)
    THEN LET w == KeywordMatchWord(text, i, keyword)
         IN {SubSeq(text, w, w + WordRun(text, w) - 1)} \cup FindAll(text, KeywordMatchEnd(text, i, keyword), keyword)
    ELSE FindAll(text, i + 1, keyword)

patterns == <<<<"F","R","O","M">>, <<"J","O","I","N">>, <<"I","N","T","O">>, <<"U","P","D","A","T","E">>>>

\* _extract_tables_regex
ExtractTablesRegex(text) ==
    LET query_upper == Upper(text)
    IN UNION {{Lower(m) : m \in FindAll(query_upper, 1, patterns[p])} : p \in DOMAIN patterns}

\* _extract_tables_from_query of the pruner
ExtractTablesFromQuery(text) ==
    LET parsed == SqlglotTables(text)
    IN IF parsed.ok THEN {Lower(table_name) : table_name \in {n \in parsed.names : n # <<>>}}
       ELSE ExtractTablesRegex(text)

\* _extract_from_query_block: the tables added, or raised (then tables holds what was
\* added before the exception)
RECURSIVE ExtractFromQueryBlock(_, _)
ExtractFromQueryBlock(query_block, tables) ==
    CASE query_block.t = "dict" ->
            LET qb == query_block.v
                own == IF "table" \notin DOMAIN qb THEN [raised |-> FALSE, tables |-> tables]
                       ELSE IF qb["table"].t = "dict"
                       THEN IF "table_name" \notin DOMAIN qb["table"].v THEN [raised |-> FALSE, tables |-> tables]
                            ELSE IF qb["table"].v["table_name"].t = "str"
                            THEN [raised |-> FALSE, tables |-> tables \cup {Lower(qb["table"].v["table_name"].v)}]
                            ELSE [raised |-> TRUE, tables |-> tables]
                       ELSE IF qb["table"].t = "str"
                       THEN [raised |-> Contains(qb["table"].v, <<"t","a","b","l","e","_","n","a","m","e">>), tables |-> tables]
                       ELSE IF qb["table"].t = "list"
                       THEN [raised |-> PyStr(<<"t","a","b","l","e","_","n","a","m","e">>) \in Range(qb["table"].v), tables |-> tables]
                       ELSE [raised |-> TRUE, tables |-> tables]
                n1 == IF own.raised \/ "nested_loop" \notin DOMAIN qb THEN own
                      ELSE ExtractFromQueryBlock(qb["nested_loop"], own.tables)
                n2 == IF n1.raised \/ "ordering_operation" \notin DOMAIN qb THEN n1
                      ELSE ExtractFromQueryBlock(qb["ordering_operation"], n1.tables)
                n3 == IF n2.raised \/ "grouping_operation" \notin DOMAIN qb THEN n2
                      ELSE ExtractFromQueryBlock(qb["grouping_operation"], n2.tables)
            IN n3
      [] query_block.t = "list" ->
            \* no key of a list of blocks is the string "table", "nested_loop", ...
            [raised |-> \E k \in {<<"t","a","b","l","e">>, <<"n","e","s","t","e","d","_","l","o","o","p">>, <<"o","r","d","e","r","i","n","g","_","o","p","e","r","a","t","i","o","n">>, <<"g","r","o","u","p","i","n","g","_","o","p","e","r","a","t","i","o","n">>} :
                            PyStr(k) \in Range(query_block.v),
             tables |-> tables]
      [] query_block.t = "str" ->
            [raised |-> \E k \in {<<"t","a","b","l","e">>, <<"n","e","s","t","e","d","_","l","o","o","p">>, <<"o","r","d","e","r","i","n","g","_","o","p","e","r","a","t","i","o","n">>, <<"g","r","o","u","p","i","n","g","_","o","p","e","r","a","t","i","o","n">>} :
                            Contains(query_block.v, k),
             tables |-> tables]
      [] OTHER -> [raised |-> TRUE, tables |-> tables]

\* the loop over the rows of a flat EXPLAIN
RECURSIVE ExplainRows(_, _)
ExplainRows(rows, tables) ==
    IF rows = <<>> THEN tables
    ELSE LET row == Head(rows)
         IN IF row.t # "dict" THEN ExplainRows(Tail(rows), tables)
            ELSE LET t1 == IF "table" \in DOMAIN row.v /\ Truthy(row.v["table"])
                           THEN tables \cup {Lower(Str(row.v["table"]))} ELSE tables
                     qb == IF "query_block" \in DOMAIN row.v
                           THEN ExtractFromQueryBlock(row.v["query_block"], t1)
                           ELSE [raised |-> FALSE, tables |-> t1]
                 IN IF qb.raised THEN qb.tables ELSE ExplainRows(Tail(rows), qb.tables)

\* _extract_tables_from_explain: an exception ends the extraction with what was found
ExtractTablesFromExplain(plan) ==
    CASE plan.t = "list" -> ExplainRows(plan.v, {})
      [] plan.t = "dict" ->
            IF "query_block" \in DOMAIN plan.v THEN ExtractFromQueryBlock(plan.v["query_block"], {}).tables ELSE {}
      [] OTHER -> {}

(***************************************************************************)
(* ContextPruner: the schema string                                        *)
(***************************************************************************)
\* the characters of the model in code point order, for sorted()
CodePointOrder ==
    <<" ","'","(",")","*",",","-",".","0","1","2","3","4","5","6","7","8","9",":",";","<","=",">","A","B","C","D","E","F","G","H","I","J","K","L","M","N","O","P","Q","R","S","T","U","V","W","X","Y","Z","_">> \o <<Backtick>> \o <<"a","b","c","d","e","f","g","h","i","j","k","l","m","n","o","p","q","r","s","t","u","v","w","x","y","z">>

CodePoint(c) == CHOOSE i \in 1..Len(CodePointOrder) : CodePointOrder[i] = c

\* a <= b for two texts
RECURSIVE TextLeq(_, _)
TextLeq(a, b) ==
    IF a = <<>> THEN TRUE
    ELSE IF b = <<>> THEN FALSE
    ELSE IF Head(a) = Head(b) THEN TextLeq(Tail(a), Tail(b))
    ELSE CodePoint(Head(a)) < CodePoint(Head(b))

\* sorted(names)
RECURSIVE Sorted(_)
Sorted(names) ==
    IF names = {} THEN <<>>
    ELSE LET first == CHOOSE n \in names : \A m \in names : TextLeq(n, m)
         IN <<first>> \o Sorted(names \ {first})

\* the position of the first table whose name is table_name as it is written, or 0
RECURSIVE FindTableExact(_, _, _)
FindTableExact(catalog, i, table_name) ==
    IF i > Len(catalog) THEN 0
    ELSE IF catalog[i][1] = table_name THEN i
    ELSE FindTableExact(catalog, i + 1, table_name)

\* the first table of the catalog, whatever the name
FindTableAny(catalog, i, table_name) == IF catalog = <<>> THEN 0 ELSE 1

\* the position in the catalog of the first table whose lower-cased name is that of
\* table_name, or 0
RECURSIVE FindTable(_, _, _)
FindTable(catalog, i, table_name) ==
    IF i > Len(catalog) THEN 0
    ELSE IF Lower(catalog[i][1]) = Lower(table_name) THEN i
    ELSE FindTable(catalog, i + 1, table_name)

\* f"{col['name']} ({col.get('type', 'unknown')})", or raised (KeyError, TypeError)
ColumnText(col) ==
    IF col.t # "dict" \/ "name" \notin DOMAIN col.v THEN [raised |-> TRUE, text |-> <<>>]
    ELSE [raised |-> FALSE,
          text |-> Str(col.v["name"]) \o <<" ","(">> \o Str(DictGet(col.v, "type", PyStr(<<"u","n","k","n","o","w","n">>))) \o <<")">>]

\* f"{idx.get('name', 'unnamed')} ({', '.join(idx.get('columns', []))})", or raised
IndexText(idx) ==
    IF idx.t # "dict" THEN [raised |-> TRUE, text |-> <<>>]
    ELSE LET columns == DictGet(idx.v, "columns", PyList(<<>>))
         IN IF columns.t # "list" \/ \E i \in DOMAIN columns.v : columns.v[i].t # "str"
            THEN [raised |-> TRUE, text |-> <<>>]
            ELSE [raised |-> FALSE,
                  text |-> Str(DictGet(idx.v, "name", PyStr(<<"u","n","n","a","m","e","d">>))) \o <<" ","(">>
                           \o Join([i \in 1..Len(columns.v) |-> columns.v[i].v], <<","," ">>) \o <<")">>]

\* the value of a key of the table info, when the info holds the key and the value is
\* true; otherwise the empty list
Listed(table_info, key) ==
    IF table_info.t = "dict" /\ key \in DOMAIN table_info.v /\ Truthy(table_info.v[key])
       /\ table_info.v[key].t = "list"
    THEN table_info.v[key].v ELSE <<>>

\* the lines of the block of one table, or raised
TableBlock(table_name, table_info) ==
    LET columns == [i \in 1..Len(Listed(table_info, "columns")) |-> ColumnText(Listed(table_info, "columns")[i])]
        indexes == [i \in 1..Len(Listed(table_info, "indexes")) |-> IndexText(Listed(table_info, "indexes")[i])]
    IN [raised |-> (\E i \in DOMAIN columns : columns[i].raised) \/ (\E i \in DOMAIN indexes : indexes[i].raised),
        lines |-> <<<<"T","a","b","l","e",":"," ">> \o table_name>>
                  \o (IF columns # <<>>
                      THEN <<<<"C","o","l","u","m","n","s",":"," ">> \o Join([i \in 1..Len(columns) |-> columns[i].text], <<","," ">>)>>
                      ELSE <<<<"C","o","l","u","m","n","s",":"," ","(","s","c","h","e","m","a"," ","n","o","t"," ","a","v","a","i","l","a","b","l","e",")">>>>)
                  \o (IF indexes # <<>>
                      THEN <<<<"I","n","d","e","x","e","s",":"," ">> \o Join([i \in 1..Len(indexes) |-> indexes[i].text], <<","," ">>)>>
                      ELSE <<>>)
                  \o << <<>> >>]

\* the loop of _build_pruned_schema over the sorted tables: schema_parts, or raised
RECURSIVE BuildLoop(_, _, _)
BuildLoop(tables, catalog, schema_parts) ==
    IF tables = <<>> THEN [raised |-> FALSE, parts |-> schema_parts]
    ELSE LET table_name == Head(tables)
             found == FindTable(catalog, 1, table_name)
         IN IF found = 0 \/ ~Truthy(catalog[found][2])
            THEN BuildLoop(Tail(tables), catalog, schema_parts)
            ELSE LET block == TableBlock(table_name, catalog[found][2])
                 IN IF block.raised THEN [raised |-> TRUE, parts |-> schema_parts]
                    ELSE BuildLoop(Tail(tables), catalog, schema_parts \o block.lines)

\* _build_pruned_schema: the string, or raised
BuildPrunedSchema(relevant_tables, catalog) ==
    LET built == BuildLoop(Sorted(relevant_tables), catalog, <<>>)
    IN [raised |-> built.raised, text |-> Join(built.parts, <<"\n">>)]

\* the full schema lost: no table at all
FormatFullSchemaEmpty(catalog) == BuildPrunedSchema({}, catalog)

\* _format_catalog
FormatFullSchema(catalog) ==
    BuildPrunedSchema({catalog[i][1] : i \in DOMAIN catalog}, catalog)

\* the tables the query and the plan name
RelevantTables(query_, plan) ==
    ExtractTablesFromQuery(query_) \cup (IF Truthy(plan) THEN ExtractTablesFromExplain(plan) ELSE {})

\* prune_schema_context: the string returned, or raised (by the except clause itself)
PruneSchemaContext(query_, catalog, plan) ==
    LET query_tables == RelevantTables(query_, plan)
        tried == IF query_tables = {} THEN FormatFullSchema(catalog)
                 ELSE BuildPrunedSchema(query_tables, catalog)
    IN IF tried.raised THEN FormatFullSchema(catalog) ELSE tried

(***************************************************************************)
(* The pruner as a state machine: one call of prune_schema_context         *)
(***************************************************************************)
Column(name, type) == PyDict([name |-> PyStr(name), type |-> PyStr(type)])
Texts(names) == PyList([i \in 1..Len(names) |-> PyStr(names[i])])

catalog_shop ==
    << <<<<"u","s","e","r","s">>,
         PyDict([columns |-> PyList(<<Column(<<"i","d">>, <<"i","n","t">>), Column(<<"n","a","m","e">>, <<"v","a","r","c","h","a","r">>)>>),
                 indexes |-> PyList(<<PyDict([name |-> PyStr(<<"P","R","I","M","A","R","Y">>), columns |-> Texts(<<<<"i","d">>>>)])>>)])>>,
       <<<<"O","r","d","e","r","s">>,
         PyDict([columns |-> PyList(<<Column(<<"i","d">>, <<"i","n","t">>), Column(<<"u","s","e","r","_","i","d">>, <<"i","n","t">>)>>),
                 indexes |-> PyList(<<PyDict([name |-> PyStr(<<"i","d","x","_","u","s","e","r">>),
                                              columns |-> Texts(<<<<"u","s","e","r","_","i","d">>, <<"i","d">>>>)]),
                                      PyDict([columns |-> Texts(<<<<"i","d">>>>)])>>)])>>,
       <<<<"p","r","o","d","u","c","t","s">>,
         PyDict([columns |-> PyList(<<PyDict([name |-> PyStr(<<"s","k","u">>)])>>)])>> >>

catalog_upper ==
    << <<<<"a","u","d","i","t","_","l","o","g">>, PyDict([columns |-> PyList(<<Column(<<"i","d">>, <<"i","n","t">>)>>), indexes |-> PyList(<<>>)])>>,
       <<<<"U","S","E","R","S">>, PyDict([columns |-> PyList(<<>>), indexes |-> PyList(<<>>)])>> >>

\* a catalog with a column that has no name
catalog_malformed ==
    << <<<<"u","s","e","r","s">>, PyDict([columns |-> PyList(<<Column(<<"i","d">>, <<"i","n","t">>)>>), indexes |-> PyList(<<>>)])>>,
       <<<<"p","r","o","d","u","c","t","s">>, PyDict([columns |-> PyList(<<PyDict([type |-> PyStr(<<"i","n","t">>)])>>), indexes |-> PyList(<<>>)])>> >>

CatalogInputs == <<catalog_shop, catalog_upper, <<>>, catalog_malformed>>

PrunerQueryInputs ==
    <<sql_users_by_id, sql_join, sql_from_orders, sql_subquery, sql_self_join, sql_ghost, sql_select_1,
      sql_broken, sql_broken_list>>

PlanInputs ==
    <<PyNone,
      PyList(<<>>),
      PyList(<<PyDict([id |-> PyInt(1), table |-> PyStr(<<"O","r","d","e","r","s">>)]), PyDict([id |-> PyInt(2), table |-> PyNone])>>),
      PyDict([query_block |->
                PyDict([ordering_operation |->
                          PyDict([table |-> PyDict([table_name |-> PyStr(<<"P","r","o","d","u","c","t","s">>)])])])]),
      PyDict([query_block |->
                PyDict([select_id |-> PyInt(1),
                        nested_loop |->
                          PyList(<<PyDict([table |-> PyDict([table_name |-> PyStr(<<"u","s","e","r","s">>)])]),
                                   PyDict([table |-> PyDict([table_name |-> PyStr(<<"p","r","o","d","u","c","t","s">>)])])>>)])])>>

ValidatorIdle ==
    /\ llm_response = NoResult
    /\ query_text = <<>>
    /\ schema_context = PyNone
    /\ given = NoResult
    /\ validated = NoResult
    /\ calls = 0
    /\ other_response = NoResult
    /\ other_validated = NoResult

PruneInit ==
    /\ \E q \in DOMAIN PrunerQueryInputs : query = PrunerQueryInputs[q]
    /\ \E c \in DOMAIN CatalogInputs : full_schema = CatalogInputs[c]
    /\ \E e \in DOMAIN PlanInputs : execution_plan = PlanInputs[e]
    /\ pruner_pc = "start"
    /\ pruned_schema = <<>>
    /\ ValidatorIdle
    /\ RouterIdle
    /\ PipelineIdle

\* pruned_schema = context_pruner.prune_schema_context(query, full_schema, execution_plan)
Prune ==
    /\ pruner_pc = "start"
    /\ \E out \in {PruneSchemaContext(query, full_schema, execution_plan)} :
          /\ pruner_pc' = IF out.raised THEN "raised" ELSE "returned"
          /\ pruned_schema' = IF out.raised THEN <<>> ELSE out.text
    /\ UNCHANGED <<query, full_schema, execution_plan, validator_vars, router_vars, pipeline_vars>>

PruneNext == Prune

SpecPrune == PruneInit /\ [][PruneNext]_vars

(***************************************************************************)
(* ModelRouter: classification and prompts                                 *)
(***************************************************************************)
reasoning_models == <<<<"d","e","e","p","s","e","e","k","-","r","1">>, <<"d","e","e","p","s","e","e","k","-","r","e","a","s","o","n","e","r">>, <<"o","1">>, <<"q","w","q">>>>

standard_models ==
    <<<<"l","l","a","m","a">>, <<"q","w","e","n">>, <<"s","q","l","c","o","d","e","r">>, <<"c","o","d","e","s","t","r","a","l">>, <<"m","i","s","t","r","a","l">>, <<"p","h","i">>, <<"g","e","m","m","a">>>>

\* the patterns looked up in the other order
DetectModelTypeStandardFirst(name) ==
    IF \E i \in DOMAIN standard_models : Contains(Lower(name), standard_models[i])
    THEN "standard"
    ELSE IF \E i \in DOMAIN reasoning_models : Contains(Lower(name), reasoning_models[i])
    THEN "reasoning"
    ELSE "unknown"

\* detect_model_type: the value of the ModelType returned
DetectModelType(name) ==
    IF \E i \in DOMAIN reasoning_models : Contains(Lower(name), reasoning_models[i])
    THEN "reasoning"
    ELSE IF \E i \in DOMAIN standard_models : Contains(Lower(name), standard_models[i])
    THEN "standard"
    ELSE "unknown"

\* the instruction blocks the two prompts end with (their heading lines)
cot_instructions == <<"\n","\n","#","#"," ","I","M","P","O","R","T","A","N","T"," ","-"," ","C","h","a","i","n"," ","o","f"," ","T","h","o","u","g","h","t"," ","R","e","q","u","i","r","e","d",":","\n">>
reasoning_instructions == <<"\n","\n","#","#"," ","O","u","t","p","u","t"," ","F","o","r","m","a","t"," ","f","o","r"," ","R","e","a","s","o","n","i","n","g"," ","M","o","d","e","l","s",":","\n">>

\* _build_standard_prompt
BuildStandardPrompt(base_context) == base_context \o cot_instructions

\* _build_reasoning_prompt
BuildReasoningPrompt(base_context) == base_context \o reasoning_instructions

\* a build_prompt that asks for extraction from every model but the standard ones
BuildPromptExtractsUnknown(type, base_context) ==
    IF type # "standard"
    THEN [prompt |-> BuildReasoningPrompt(base_context), needs_extraction |-> TRUE]
    ELSE [prompt |-> BuildStandardPrompt(base_context), needs_extraction |-> FALSE]

\* build_prompt: (prompt, needs_json_extraction)
BuildPrompt(type, base_context) ==
    IF type = "reasoning"
    THEN [prompt |-> BuildReasoningPrompt(base_context), needs_extraction |-> TRUE]
    ELSE [prompt |-> BuildStandardPrompt(base_context), needs_extraction |-> FALSE]


(***************************************************************************)
(* ModelRouter: extraction                                                 *)
(***************************************************************************)
\* JSON texts a provider's raw response holds
json_score == <<"{","\"","s","c","o","r","e","\"",":","8","0","}">>
json_reasoned == <<"{","\"","s","c","o","r","e","\"",":","4","5",",","\"","r","e","a","s","o","n","i","n","g","\"",":","\"","k","e","p","t","\"","}">>
json_indexed == <<"{","\"","s","c","o","r","e","\"",":","7","0",",","\"","i","n","d","e","x","e","s","\"",":","[","{","\"","t","a","b","l","e","\"",":","\"","u","s","e","r","s","\"","}","]","}">>
json_index_users == <<"{","\"","s","c","o","r","e","\"",":","7","0",",","\"","i","n","d","e","x","e","s","\"",":","[","{","\"","t","a","b","l","e","\"",":","\"","u","s","e","r","s","\"",",","\"","c","o","l","u","m","n","s","\"",":","[","\"","i","d","\"","]","}","]","}">>
json_plan == <<"{","\"","s","c","o","r","e","\"",":","6","0",",","\"","m","e","t","a","\"",":","{","\"","p","l","a","n","\"",":","{","\"","t","y","p","e","\"",":","\"","A","L","L","\"","}","}","}">>
json_plan_meta == <<"{","\"","p","l","a","n","\"",":","{","\"","t","y","p","e","\"",":","\"","A","L","L","\"","}","}">>
json_type == <<"{","\"","t","y","p","e","\"",":","\"","A","L","L","\"","}">>
json_table == <<"{","\"","t","a","b","l","e","\"",":","\"","u","s","e","r","s","\"","}">>
json_list == <<"[","1","]">>
json_number == <<"4","2">>

\* the whitespace json.loads skips around a document
IsJsonSpace(c) == c \in {" ", "\n", "\t", "\r"}

\* the text without the JSON whitespace around it
JsonTrim(text) ==
    LET inside == {i \in DOMAIN text : ~IsJsonSpace(text[i])}
    IN IF inside = {} THEN <<>>
       ELSE SubSeq(text, CHOOSE i \in inside : \A j \in inside : i <= j,
                         CHOOSE i \in inside : \A j \in inside : i >= j)

\* json.loads(text): the value, or not ok (JSONDecodeError); the documents are those of
\* the model, every other text is not JSON
JsonLoads(text) ==
    CASE JsonTrim(text) = json_score ->
            [ok |-> TRUE, value |-> PyDict([score |-> PyInt(80)])]
      [] JsonTrim(text) = json_reasoned ->
            [ok |-> TRUE, value |-> PyDict([score |-> PyInt(45), reasoning |-> PyStr(<<"k","e","p","t">>)])]
      [] JsonTrim(text) = json_indexed ->
            [ok |-> TRUE,
             value |-> PyDict([score |-> PyInt(70),
                               indexes |-> PyList(<<PyDict([table |-> PyStr(<<"u","s","e","r","s">>)])>>)])]
      [] JsonTrim(text) = json_index_users ->
            [ok |-> TRUE,
             value |-> PyDict([score |-> PyInt(70),
                               indexes |-> PyList(<<PyDict([table |-> PyStr(<<"u","s","e","r","s">>),
                                                            columns |-> PyList(<<PyStr(<<"i","d">>)>>)])>>)])]
      [] JsonTrim(text) = json_plan ->
            [ok |-> TRUE,
             value |-> PyDict([score |-> PyInt(60),
                               meta |-> PyDict([plan |-> PyDict([type |-> PyStr(<<"A","L","L">>)])])])]
      [] JsonTrim(text) = json_plan_meta ->
            [ok |-> TRUE, value |-> PyDict([plan |-> PyDict([type |-> PyStr(<<"A","L","L">>)])])]
      [] JsonTrim(text) = json_type -> [ok |-> TRUE, value |-> PyDict([type |-> PyStr(<<"A","L","L">>)])]
      [] JsonTrim(text) = json_table -> [ok |-> TRUE, value |-> PyDict([table |-> PyStr(<<"u","s","e","r","s">>)])]
      [] JsonTrim(text) = json_list -> [ok |-> TRUE, value |-> PyList(<<PyInt(1)>>)]
      [] JsonTrim(text) = json_number -> [ok |-> TRUE, value |-> PyInt(42)]
      [] OTHER -> [ok |-> FALSE, value |-> PyNone]

\* the first position from i on where the pattern p starts in s, or 0
Find(s, p, i) ==
    LET found == {j \in i..(Len(s) + 1) : MatchAt(s, j, p)}
    IN IF found = {} THEN 0 ELSE CHOOSE j \in found : \A k \in found : j <= k

\* the last position where the character c stands in s, or 0
FindLast(s, c) ==
    LET found == {j \in DOMAIN s : s[j] = c}
    IN IF found = {} THEN 0 ELSE CHOOSE j \in found : \A k \in found : j >= k

\* raw_response[:500]
excerpt_length == 500
Excerpt(raw) == SubSeq(raw, 1, Min(Len(raw), excerpt_length))

\* the two error records
StandardError(raw) ==
    PyDict([error |-> PyStr(<<"C","o","u","l","d"," ","n","o","t"," ","p","a","r","s","e"," ","r","e","s","p","o","n","s","e">>), raw |-> PyStr(Excerpt(raw))])

ReasoningError(raw) ==
    PyDict([error |-> PyStr(<<"C","o","u","l","d"," ","n","o","t"," ","e","x","t","r","a","c","t"," ","J","S","O","N"," ","f","r","o","m"," ","r","e","a","s","o","n","i","n","g"," ","o","u","t","p","u","t">>),
            raw |-> PyStr(Excerpt(raw))])


\* re.search(r'\{.*\}', raw, re.DOTALL): from the first "{" to the last "}", or nothing
GreedyBraces(raw) ==
    IF Find(raw, <<"{">>, 1) = 0 \/ FindLast(raw, "}") < Find(raw, <<"{">>, 1) THEN <<>>
    ELSE SubSeq(raw, Find(raw, <<"{">>, 1), FindLast(raw, "}"))

\* the fallback of _extract_standard_response, given the text the search matched
StandardFallback(raw, matched) ==
    IF matched # <<>> /\ JsonLoads(matched).ok
    THEN [raised |-> FALSE, value |-> JsonLoads(matched).value]
    ELSE [raised |-> FALSE, value |-> StandardError(raw)]

\* _extract_standard_response: the value returned (this path raises nothing for a text)
ExtractStandardResponse(raw) ==
    IF JsonLoads(raw).ok THEN [raised |-> FALSE, value |-> JsonLoads(raw).value]
    ELSE StandardFallback(raw, GreedyBraces(raw))

\* where the match of \{[^{}]*(?:\{[^{}]*\}[^{}]*)*\} that opened before j ends, reading
\* on from j at nesting depth 1 or 2; 0 when there is no match
RECURSIVE BraceEnd(_, _, _)
BraceEnd(text, j, depth) ==
    IF j > Len(text) THEN 0
    ELSE IF text[j] = "{" THEN (IF depth = 1 THEN BraceEnd(text, j + 1, 2) ELSE 0)
    ELSE IF text[j] = "}" THEN (IF depth = 2 THEN BraceEnd(text, j + 1, 1) ELSE j)
    ELSE BraceEnd(text, j + 1, depth)

\* list(re.finditer(...))[-1]: the last of the matches found from i on, or the one given
RECURSIVE LastMatchFrom(_, _, _)
LastMatchFrom(text, i, last) ==
    IF Find(text, <<"{">>, i) = 0 THEN last
    ELSE IF BraceEnd(text, Find(text, <<"{">>, i) + 1, 1) = 0
    THEN LastMatchFrom(text, Find(text, <<"{">>, i) + 1, last)
    ELSE LastMatchFrom(text, BraceEnd(text, Find(text, <<"{">>, i) + 1, 1) + 1,
                       [start |-> Find(text, <<"{">>, i),
                        end |-> BraceEnd(text, Find(text, <<"{">>, i) + 1, 1)])

NoMatch == [start |-> 0, end |-> 0]

\* whether the key "reasoning" is in the parsed value, or the test raises (TypeError)
ReasoningIn(parsed) ==
    CASE parsed.t = "dict" -> [raised |-> FALSE, found |-> "reasoning" \in DOMAIN parsed.v]
      [] parsed.t = "list" -> [raised |-> FALSE, found |-> PyStr(<<"r","e","a","s","o","n","i","n","g">>) \in Range(parsed.v)]
      [] parsed.t = "str" -> [raised |-> FALSE, found |-> Contains(parsed.v, <<"r","e","a","s","o","n","i","n","g">>)]
      [] OTHER -> [raised |-> TRUE, found |-> FALSE]

\* a backfill that overwrites the reasoning of the parsed object
BackfillOverwrites(parsed, reasoning_text) ==
    IF reasoning_text = <<>> \/ parsed.t # "dict" THEN [raised |-> FALSE, value |-> parsed]
    ELSE [raised |-> FALSE, value |-> PyDict(DictSet(parsed.v, "reasoning", PyStr(reasoning_text)))]

\* if reasoning_text and "reasoning" not in parsed: parsed["reasoning"] = reasoning_text;
\* return parsed  (the assignment raises TypeError on a value that is no mapping)
Backfill(parsed, reasoning_text) ==
    IF reasoning_text = <<>> THEN [raised |-> FALSE, value |-> parsed]
    ELSE IF ReasoningIn(parsed).raised THEN [raised |-> TRUE, value |-> PyNone]
    ELSE IF ReasoningIn(parsed).found THEN [raised |-> FALSE, value |-> parsed]
    ELSE IF parsed.t # "dict" THEN [raised |-> TRUE, value |-> PyNone]
    ELSE [raised |-> FALSE, value |-> PyDict(DictSet(parsed.v, "reasoning", PyStr(reasoning_text)))]

\* method 3: the whole response, or the error record
ReasoningWhole(raw) ==
    IF JsonLoads(raw).ok THEN [raised |-> FALSE, value |-> JsonLoads(raw).value]
    ELSE [raised |-> FALSE, value |-> ReasoningError(raw)]

\* method 2, given the last match of the search for JSON objects
ReasoningLastObject(raw, last_match) ==
    IF last_match # NoMatch /\ JsonLoads(SubSeq(raw, last_match.start, last_match.end)).ok
    THEN Backfill(JsonLoads(SubSeq(raw, last_match.start, last_match.end)).value,
                  Strip(SubSeq(raw, 1, last_match.start - 1)))
    ELSE ReasoningWhole(raw)

\* method 1, given where the <JSON> tag opens and where </JSON> closes it (0: no match)
ReasoningTagged(raw, open, close) ==
    IF open # 0 /\ close # 0 /\ JsonLoads(Strip(SubSeq(raw, open + 6, close - 1))).ok
    THEN Backfill(JsonLoads(Strip(SubSeq(raw, open + 6, close - 1))).value,
                  Strip(SubSeq(raw, 1, open - 1)))
    ELSE ReasoningLastObject(raw, LastMatchFrom(raw, 1, NoMatch))

\* where </JSON> first stands after the tag that opens at open
TagClose(raw, open) == IF open = 0 THEN 0 ELSE Find(Lower(raw), <<"<","/","j","s","o","n",">">>, open + 6)

\* _extract_reasoning_response: the value returned, or raised
ExtractReasoningResponse(raw) ==
    ReasoningTagged(raw, Find(Lower(raw), <<"<","j","s","o","n",">">>, 1), TagClose(raw, Find(Lower(raw), <<"<","j","s","o","n",">">>, 1)))

\* extract_response
ExtractResponse(raw, type) ==
    IF type = "reasoning" THEN ExtractReasoningResponse(raw) ELSE ExtractStandardResponse(raw)


(***************************************************************************)
(* The router as a state machine: one model name and one raw response      *)
(* taken through detect_model_type, build_prompt and extract_response      *)
(***************************************************************************)
\* the length of a response longer than the excerpt of the error record
LongLength == 503

raw_tagged == <<"r","e","a","s","o","n","i","n","g"," ","t","e","x","t",".",".","."," ","<","J","S","O","N",">","{","\"","s","c","o","r","e","\"",":","8","0","}","<","/","J","S","O","N",">">>
raw_tagged_lower == <<"<","j","s","o","n",">","{","\"","s","c","o","r","e","\"",":","8","0","}","<","/","j","s","o","n",">">>
raw_tagged_reasoned == <<"t","h","i","n","k","i","n","g"," ","<","J","S","O","N",">","{","\"","s","c","o","r","e","\"",":","4","5",",","\"","r","e","a","s","o","n","i","n","g","\"",":","\"","k","e","p","t","\"","}","<","/","J","S","O","N",">">>
raw_tagged_spaced == <<" "," ","t","h","i","n","k"," "," ","<","J","S","O","N",">"," ","{","\"","s","c","o","r","e","\"",":","8","0","}"," ","<","/","J","S","O","N",">"," ","t","a","i","l"," ","{","\"","s","c","o","r","e","\"",":","4","5",",","\"","r","e","a","s","o","n","i","n","g","\"",":","\"","k","e","p","t","\"","}">>
raw_tagged_list == <<"n","o","t","e","s"," ","<","J","S","O","N",">","[","1","]","<","/","J","S","O","N",">">>
raw_tagged_number == <<"n","o","t","e","s"," ","<","J","S","O","N",">","4","2","<","/","J","S","O","N",">">>
raw_tagged_bad == <<"<","J","S","O","N",">","{","b","a","d","}","<","/","J","S","O","N",">"," ","s","o"," ","{","\"","s","c","o","r","e","\"",":","8","0","}">>
raw_two_objects == <<"f","i","r","s","t"," ","{","\"","s","c","o","r","e","\"",":","8","0","}"," ","t","h","e","n"," ","{","\"","s","c","o","r","e","\"",":","4","5",",","\"","r","e","a","s","o","n","i","n","g","\"",":","\"","k","e","p","t","\"","}">>
raw_two_indexed == <<"d","r","a","f","t"," ","{","\"","s","c","o","r","e","\"",":","8","0","}"," ","f","i","n","a","l"," ","{","\"","s","c","o","r","e","\"",":","7","0",",","\"","i","n","d","e","x","e","s","\"",":","[","{","\"","t","a","b","l","e","\"",":","\"","u","s","e","r","s","\"","}","]","}">>
raw_two_deep == <<"d","r","a","f","t"," ","{","\"","s","c","o","r","e","\"",":","8","0","}"," ","f","i","n","a","l"," ","{","\"","s","c","o","r","e","\"",":","6","0",",","\"","m","e","t","a","\"",":","{","\"","p","l","a","n","\"",":","{","\"","t","y","p","e","\"",":","\"","A","L","L","\"","}","}","}">>
raw_two_then_braces == <<"{","\"","s","c","o","r","e","\"",":","8","0","}"," ","o","r"," ","{","\"","s","c","o","r","e","\"",":","4","5",",","\"","r","e","a","s","o","n","i","n","g","\"",":","\"","k","e","p","t","\"","}"," ","a","s"," ","{","x","}">>
raw_deep == <<"f","i","n","a","l"," ","a","n","s","w","e","r"," ","{","\"","s","c","o","r","e","\"",":","6","0",",","\"","m","e","t","a","\"",":","{","\"","p","l","a","n","\"",":","{","\"","t","y","p","e","\"",":","\"","A","L","L","\"","}","}","}">>
raw_prose == <<"n","o"," ","j","s","o","n"," ","h","e","r","e">>
raw_long == [i \in 1..LongLength |-> IF i % 7 = 0 THEN " " ELSE "x"]

RawInputs ==
    <<json_score, json_list, <<>>, raw_tagged, raw_tagged_lower, raw_tagged_reasoned, raw_tagged_spaced,
      raw_tagged_list, raw_tagged_number, raw_tagged_bad, raw_two_objects, raw_two_indexed, raw_two_deep,
      raw_two_then_braces, raw_prose, raw_long, raw_deep>>

ModelInputs ==
    <<<<"d","e","e","p","s","e","e","k","-","r","1">>, <<"D","e","e","p","S","e","e","k","-","R","1",":","7","b">>, <<"d","e","e","p","s","e","e","k","-","r","e","a","s","o","n","e","r">>, <<"o","1","-","m","i","n","i">>, <<"Q","w","Q","-","3","2","B">>,
      <<"q","w","e","n","-","q","w","q">>, <<"l","l","a","m","a","3",".","2",":","l","a","t","e","s","t">>, <<"M","i","s","t","r","a","l","-","7","B">>, <<"s","q","l","c","o","d","e","r">>, <<"g","p","t","-","4">>, <<"d","e","e","p","s","e","e","k","-","c","h","a","t">>,
      <<"g","e","m","i","n","i","-","p","r","o">>, <<>> >>

base_context_sample == <<"#","#"," ","Q","u","e","r","y"," ","t","o"," ","A","n","a","l","y","z","e",":","\n","S","E","L","E","C","T"," ","1","\n">>


RouteInit ==
    /\ \E m \in DOMAIN ModelInputs : model_name = ModelInputs[m]
    /\ \E r \in DOMAIN RawInputs : raw_response = RawInputs[r]
    /\ model_type = "none"
    /\ final_prompt = <<>>
    /\ needs_extraction = FALSE
    /\ extracted = NoResult
    /\ router_pc = "start"
    /\ ValidatorIdle
    /\ PrunerIdle
    /\ PipelineIdle

\* model_type = model_router.detect_model_type(model_name)
Detect ==
    /\ router_pc = "start"
    /\ model_type' = DetectModelType(model_name)
    /\ router_pc' = "detected"
    /\ UNCHANGED <<model_name, final_prompt, needs_extraction, raw_response, extracted,
                   validator_vars, pruner_vars, pipeline_vars>>

\* final_prompt, needs_extraction = model_router.build_prompt(model_type, base_context)
Build ==
    /\ router_pc = "detected"
    /\ \E built \in {BuildPrompt(model_type, base_context_sample)} :
          /\ final_prompt' = built.prompt
          /\ needs_extraction' = built.needs_extraction
    /\ router_pc' = "prompted"
    /\ UNCHANGED <<model_name, model_type, raw_response, extracted, validator_vars, pruner_vars,
                   pipeline_vars>>

\* analysis = model_router.extract_response(raw_response, model_type)
Extract ==
    /\ router_pc = "prompted"
    /\ \E out \in {ExtractResponse(raw_response, model_type)} :
          /\ extracted' = IF out.raised THEN NoResult ELSE out.value
          /\ router_pc' = IF out.raised THEN "raised" ELSE "extracted"
    /\ UNCHANGED <<model_name, model_type, final_prompt, needs_extraction, raw_response,
                   validator_vars, pruner_vars, pipeline_vars>>

RouteNext == Detect \/ Build \/ Extract

SpecRoute == RouteInit /\ [][RouteNext]_vars


(***************************************************************************)
(* LLMService: the parts of analyze_query                                  *)
(***************************************************************************)
ollama == <<"o","l","l","a","m","a">>
openai == <<"o","p","e","n","a","i">>
gemini == <<"g","e","m","i","n","i">>
deepseek == <<"d","e","e","p","s","e","e","k">>

\* _get_model_name
GetModelName(config) ==
    CASE config.llm_provider = ollama -> config.ollama_model
      [] config.llm_provider = openai -> config.openai_model
      [] config.llm_provider = deepseek -> <<"d","e","e","p","s","e","e","k","-","c","h","a","t">>
      [] config.llm_provider = gemini -> <<"g","e","m","i","n","i","-","p","r","o">>
      [] OTHER -> <<"u","n","k","n","o","w","n">>

\* the lines every base context starts with, up to the query
context_head ==
    <<<<"Y","o","u"," ","a","r","e"," ","a"," ","M","y","S","Q","L"," ","d","a","t","a","b","a","s","e"," ","p","e","r","f","o","r","m","a","n","c","e"," ","e","x","p","e","r","t","."," ","A","n","a","l","y","z","e"," ","t","h","e"," ","q","u","e","r","y"," ","b","e","l","o","w"," ","a","n","d"," ","p","r","o","v","i","d","e"," ","o","p","t","i","m","i","z","a","t","i","o","n"," ","r","e","c","o","m","m","e","n","d","a","t","i","o","n","s",".">>,
      <<>>,
      <<"I","M","P","O","R","T","A","N","T"," ","R","U","L","E","S"," ","T","O"," ","P","R","E","V","E","N","T"," ","E","R","R","O","R","S",":">>,
      <<"-"," ","O","N","L","Y"," ","s","u","g","g","e","s","t"," ","i","n","d","e","x","e","s"," ","o","n"," ","t","a","b","l","e","s"," ","a","n","d"," ","c","o","l","u","m","n","s"," ","t","h","a","t"," ","a","p","p","e","a","r"," ","i","n"," ","t","h","e"," ","S","c","h","e","m","a"," ","C","o","n","t","e","x","t"," ","b","e","l","o","w">>,
      <<"-"," ","D","O"," ","N","O","T"," ","i","n","v","e","n","t"," ","o","r"," ","g","u","e","s","s"," ","t","a","b","l","e","/","c","o","l","u","m","n"," ","n","a","m","e","s">>,
      <<"-"," ","I","f"," ","n","o"," ","s","c","h","e","m","a"," ","i","s"," ","p","r","o","v","i","d","e","d",","," ","D","O"," ","N","O","T"," ","s","u","g","g","e","s","t"," ","s","p","e","c","i","f","i","c"," ","i","n","d","e","x","e","s">>,
      <<"-"," ","O","N","L","Y"," ","s","u","g","g","e","s","t"," ","v","a","l","i","d"," ","M","y","S","Q","L"," ","s","y","n","t","a","x">>,
      <<"-"," ","I","f"," ","u","n","s","u","r","e"," ","a","b","o","u","t"," ","a"," ","r","e","c","o","m","m","e","n","d","a","t","i","o","n",","," ","o","m","i","t"," ","i","t"," ","r","a","t","h","e","r"," ","t","h","a","n"," ","g","u","e","s","s","i","n","g">>,
      <<"-"," ","B","e"," ","c","o","n","s","e","r","v","a","t","i","v","e"," ","a","n","d"," ","f","a","c","t","u","a","l"," ","i","n"," ","y","o","u","r"," ","a","n","a","l","y","s","i","s">>,
      <<>>,
      <<"#","#"," ","Q","u","e","r","y"," ","t","o"," ","A","n","a","l","y","z","e",":">>,
      <<Backtick,Backtick,Backtick,"s","q","l">>>>

\* the lines about the schema
SchemaLines(schema) ==
    IF Truthy(schema)
    THEN <<<<"#","#"," ","S","c","h","e","m","a"," ","C","o","n","t","e","x","t"," ","(","T","a","b","l","e","s"," ","a","n","d"," ","C","o","l","u","m","n","s",")",":">>,
           <<Backtick,Backtick,Backtick>>,
           schema.v,
           <<Backtick,Backtick,Backtick>>,
           <<>>,
           <<"R","E","M","I","N","D","E","R",":"," ","O","n","l","y"," ","s","u","g","g","e","s","t"," ","i","n","d","e","x","e","s"," ","u","s","i","n","g"," ","t","a","b","l","e","s","/","c","o","l","u","m","n","s"," ","f","r","o","m"," ","t","h","e"," ","S","c","h","e","m","a"," ","C","o","n","t","e","x","t"," ","a","b","o","v","e",".">>,
           <<>> >>
    ELSE <<<<"#","#"," ","S","c","h","e","m","a"," ","C","o","n","t","e","x","t",":">>,
           <<"N","o"," ","s","c","h","e","m","a"," ","i","n","f","o","r","m","a","t","i","o","n"," ","p","r","o","v","i","d","e","d","."," ","D","O"," ","N","O","T"," ","s","u","g","g","e","s","t"," ","s","p","e","c","i","f","i","c"," ","i","n","d","e","x"," ","n","a","m","e","s",".">>,
           <<>> >>

\* a base context that leaves the schema out
BuildBaseContextBare(query_, schema) ==
    Join(context_head \o <<query_, <<Backtick,Backtick,Backtick>>, <<>> >> \o SchemaLines(PyNone), <<"\n">>)

\* _build_base_context, for a call without execution plan and without metrics (the two
\* sections "if execution_plan:" and "if metrics:" add nothing)
BuildBaseContext(query_, schema) ==
    Join(context_head \o <<query_, <<Backtick,Backtick,Backtick>>, <<>> >> \o SchemaLines(schema), <<"\n">>)

\* n / d rounded to the nearest integer, for d > 0
RoundDiv(n, d) == (2 * n + d) \div (2 * d)

\* the ways list(query_tables) can order a set
Orders(tables) == {order \in [1..Cardinality(tables) -> tables] : Range(order) = tables}

\* estimate_context_reduction, given the order in which the set of tables is listed;
\* reduction_percentage is round(..., 1), kept in tenths
EstimateContextReduction(query_tables, catalog, order) ==
    PyDict([total_tables |-> PyInt(Len(catalog)),
            relevant_tables |-> PyInt(Cardinality(query_tables)),
            tables_removed |-> PyInt(Len(catalog) - Cardinality(query_tables)),
            reduction_percentage |->
                PyFloat(IF Len(catalog) > 0
                        THEN RoundDiv((Len(catalog) - Cardinality(query_tables)) * 1000, Len(catalog))
                        ELSE 0),
            extracted_tables |-> PyList([i \in DOMAIN order |-> PyStr(order[i])])])

\* a failure that is not flagged as one
FailureUnflagged(message) == [success |-> TRUE, error |-> PyStr(message)]

\* a provider-failure result
Failure(message) == [success |-> FALSE, error |-> PyStr(message)]

\* the format hint of the request: format (ollama), response_format (openai, deepseek),
\* response_mime_type (gemini)
FormatHint(needs_json_extraction) == IF needs_json_extraction THEN "none" ELSE "json"

\* str(e) of the exception a request ends with, or the message built from the body of a
\* response whose status is not 200.  The total timeout of aiohttp (ollama, deepseek)
\* raises asyncio.TimeoutError without arguments, whose str is empty.
RequestError(provider, outcome) ==
    CASE outcome = "status" /\ provider = ollama -> <<"O","l","l","a","m","a"," ","A","P","I"," ","e","r","r","o","r",":"," ","m","o","d","e","l"," ","n","o","t"," ","f","o","u","n","d">>
      [] outcome = "status" /\ provider = deepseek -> <<"D","e","e","p","S","e","e","k"," ","A","P","I"," ","e","r","r","o","r",":"," ">>
      [] outcome = "status" -> <<"E","r","r","o","r"," ","c","o","d","e",":"," ","5","0","0">>
      [] outcome = "network" /\ provider \in {ollama, deepseek} -> <<"C","a","n","n","o","t"," ","c","o","n","n","e","c","t"," ","t","o"," ","h","o","s","t">>
      [] outcome = "network" -> <<"C","o","n","n","e","c","t","i","o","n"," ","e","r","r","o","r",".">>
      [] outcome = "timeout" /\ provider \in {ollama, deepseek} -> <<>>
      [] outcome = "timeout" -> <<"R","e","q","u","e","s","t"," ","t","i","m","e","d"," ","o","u","t",".">>

\* str(e) of the TypeError of extract_response, and of the JSONDecodeError of json.loads
\* for a text that does not start with a JSON value
type_error == <<"l","i","s","t"," ","i","n","d","i","c","e","s"," ","m","u","s","t"," ","b","e"," ","i","n","t","e","g","e","r","s"," ","o","r"," ","s","l","i","c","e","s",","," ","n","o","t"," ","s","t","r">>
json_error == <<"E","x","p","e","c","t","i","n","g"," ","v","a","l","u","e",":"," ","l","i","n","e"," ","1"," ","c","o","l","u","m","n"," ","1"," ","(","c","h","a","r"," ","0",")">>

\* the model type the provider function hands to extract_response
ExtractionType(config) ==
    CASE config.llm_provider = ollama -> DetectModelType(config.ollama_model)
      [] config.llm_provider = openai -> DetectModelType(config.openai_model)
      [] config.llm_provider = gemini -> "standard"
      [] config.llm_provider = deepseek -> DetectModelType(<<"d","e","e","p","s","e","e","k","-","c","h","a","t">>)

\* model_router.extract_response inside the try of the provider function
Extraction(out) ==
    IF out.raised THEN [raised |-> TRUE, error |-> type_error, value |-> PyNone]
    ELSE [raised |-> FALSE, error |-> <<>>, value |-> out.value]

\* the analysis a provider function makes of the text answered: by extraction when the
\* prompt asked for it, else by json.loads, which only _analyze_with_ollama backs with
\* extract_response
ParseAnswer(config, raw, needs_json_extraction) ==
    IF needs_json_extraction THEN Extraction(ExtractResponse(raw, ExtractionType(config)))
    ELSE IF JsonLoads(raw).ok THEN [raised |-> FALSE, error |-> <<>>, value |-> JsonLoads(raw).value]
    ELSE IF config.llm_provider = ollama THEN Extraction(ExtractResponse(raw, ExtractionType(config)))
    ELSE [raised |-> TRUE, error |-> json_error, value |-> PyNone]

\* what the provider function returns for the text answered
Answered(config, parsed) ==
    IF parsed.raised THEN Failure(parsed.error)
    ELSE [success |-> TRUE, provider |-> PyStr(config.llm_provider), analysis |-> parsed.value]

\* "<Provider> API key not configured"
KeyMissing(provider) ==
    CASE provider = openai -> <<"O","p","e","n","A","I"," ","A","P","I"," ","k","e","y"," ","n","o","t"," ","c","o","n","f","i","g","u","r","e","d">>
      [] provider = gemini -> <<"G","e","m","i","n","i"," ","A","P","I"," ","k","e","y"," ","n","o","t"," ","c","o","n","f","i","g","u","r","e","d">>
      [] provider = deepseek -> <<"D","e","e","p","S","e","e","k"," ","A","P","I"," ","k","e","y"," ","n","o","t"," ","c","o","n","f","i","g","u","r","e","d">>

\* the result analyze_query merges from the validated response
Merged(config, response, type, validated_response, reduction) ==
    LET merged == [success |-> TRUE,
                   provider |-> DictGet(response, "provider", PyStr(config.llm_provider)),
                   model_type |-> type,
                   analysis |-> validated_response.analysis,
                   confidence |-> validated_response.confidence,
                   warnings |-> validated_response.warnings,
                   guardrails_applied |-> validated_response.guardrails_applied,
                   validated |-> validated_response.validated]
    IN IF Truthy(reduction) THEN DictSet(merged, "context_reduction", reduction) ELSE merged

(***************************************************************************)
(* analyze_query as a state machine: one call, step by step.  The call is  *)
(* made without execution plan and without metrics.                        *)
(***************************************************************************)
Settings(provider, ollama_model, openai_model, api_key) ==
    [llm_provider |-> provider, ollama_model |-> ollama_model, openai_model |-> openai_model,
     api_key |-> api_key]

SettingsInputs ==
    <<Settings(ollama, <<"l","l","a","m","a","3",".","2",":","l","a","t","e","s","t">>, <<"g","p","t","-","4">>, <<>>),
      Settings(ollama, <<"d","e","e","p","s","e","e","k","-","r","1">>, <<"g","p","t","-","4">>, <<>>),
      Settings(ollama, <<"s","t","a","r","c","o","d","e","r">>, <<"g","p","t","-","4">>, <<>>),
      Settings(openai, <<"l","l","a","m","a","3",".","2",":","l","a","t","e","s","t">>, <<"g","p","t","-","4">>, <<"s","k">>),
      Settings(openai, <<"l","l","a","m","a","3",".","2",":","l","a","t","e","s","t">>, <<"o","1","-","m","i","n","i">>, <<"s","k">>),
      Settings(openai, <<"l","l","a","m","a","3",".","2",":","l","a","t","e","s","t">>, <<"g","p","t","-","4">>, <<>>),
      Settings(gemini, <<"l","l","a","m","a","3",".","2",":","l","a","t","e","s","t">>, <<"g","p","t","-","4">>, <<"s","k">>),
      Settings(deepseek, <<"l","l","a","m","a","3",".","2",":","l","a","t","e","s","t">>, <<"g","p","t","-","4">>, <<"s","k">>),
      Settings(deepseek, <<"l","l","a","m","a","3",".","2",":","l","a","t","e","s","t">>, <<"g","p","t","-","4">>, <<>>),
      Settings(<<"c","l","a","u","d","e">>, <<"l","l","a","m","a","3",".","2",":","l","a","t","e","s","t">>, <<"g","p","t","-","4">>, <<"s","k">>)>>

PipelineQueryInputs == <<sql_users_by_id, sql_select_1>>
PipelineSchemaInputs == <<PyNone, PyStr(schema_one_line)>>
PipelineCatalogInputs == << <<>>, catalog_shop, catalog_malformed>>
PipelineRawInputs ==
    <<json_score, json_list, <<>>, raw_prose, raw_tagged, raw_tagged_list, raw_two_objects,
      json_index_users>>

\* what a provider can do with a request: answer with status 200 and a text, answer with
\* another status, fail to connect, or not answer in time
ProviderOutcomes == {"answered", "status", "network", "timeout"}

PipelineInit ==
    /\ \E c \in DOMAIN SettingsInputs : settings = SettingsInputs[c]
    /\ \E q \in DOMAIN PipelineQueryInputs : query_text = PipelineQueryInputs[q]
    /\ \E s \in DOMAIN PipelineSchemaInputs : schema_context = PipelineSchemaInputs[s]
    /\ \E c \in DOMAIN PipelineCatalogInputs : full_schema = PipelineCatalogInputs[c]
    /\ execution_plan = PyNone
    /\ llm_response = NoResult
    /\ given = NoResult
    /\ validated = NoResult
    /\ calls = 0
    /\ other_response = NoResult
    /\ other_validated = NoResult
    /\ query = <<>>
    /\ pruner_pc = "idle"
    /\ pruned_schema = PyNone
    /\ model_name = <<>>
    /\ model_type = "none"
    /\ final_prompt = <<>>
    /\ needs_extraction = FALSE
    /\ raw_response = <<>>
    /\ extracted = NoResult
    /\ router_pc = "idle"
    /\ provider_outcome = "none"
    /\ format_hint = "unsent"
    /\ context_reduction = PyNone
    /\ result = NoResult
    /\ steps = <<>>
    /\ pipeline_pc = "start"

\* what no step of analyze_query changes
call_vars ==
    <<query_text, schema_context, full_schema, execution_plan, settings, other_response,
      other_validated, query, pruner_pc, router_pc>>

\* layer 1: pruned_schema = schema_context, or, with a catalog, the pruned schema and the
\* metrics; an exception of the pruner ends the call in the except clause
PipelinePrune ==
    /\ pipeline_pc = "start"
    /\ IF full_schema # <<>>
       THEN /\ steps' = Append(steps, "prune")
            /\ \E out \in {PruneSchemaContext(query_text, full_schema, execution_plan)} :
                  IF out.raised
                  THEN /\ result' = Failure(<<"'","n","a","m","e","'">>)
                       /\ pipeline_pc' = "returned"
                       /\ UNCHANGED <<pruned_schema, context_reduction>>
                  ELSE /\ pruned_schema' = PyStr(out.text)
                       /\ \E order \in Orders(ExtractTablesFromQuery(query_text)) :
                             context_reduction' =
                                 EstimateContextReduction(ExtractTablesFromQuery(query_text),
                                                          full_schema, order)
                       /\ pipeline_pc' = "pruned"
                       /\ UNCHANGED result
       ELSE /\ pruned_schema' = schema_context
            /\ pipeline_pc' = "pruned"
            /\ UNCHANGED <<steps, result, context_reduction>>
    /\ UNCHANGED <<call_vars, llm_response, given, validated, calls, model_name, model_type,
                   final_prompt, needs_extraction, raw_response, extracted, provider_outcome,
                   format_hint>>

\* layer 2: model_type = model_router.detect_model_type(self._get_model_name())
PipelineDetect ==
    /\ pipeline_pc = "pruned"
    /\ model_name' = GetModelName(settings)
    /\ model_type' = DetectModelType(GetModelName(settings))
    /\ steps' = Append(steps, "classify")
    /\ pipeline_pc' = "detected"
    /\ UNCHANGED <<call_vars, llm_response, given, validated, calls, pruned_schema,
                   final_prompt, needs_extraction, raw_response, extracted, provider_outcome,
                   format_hint, context_reduction, result>>

\* final_prompt, needs_extraction = model_router.build_prompt(model_type, base_context)
PipelineBuild ==
    /\ pipeline_pc = "detected"
    /\ \E built \in {BuildPrompt(model_type, BuildBaseContext(query_text, pruned_schema))} :
          /\ final_prompt' = built.prompt
          /\ needs_extraction' = built.needs_extraction
    /\ steps' = Append(steps, "build_prompt")
    /\ pipeline_pc' = "prompted"
    /\ UNCHANGED <<call_vars, llm_response, given, validated, calls, pruned_schema, model_name,
                   model_type, raw_response, extracted, provider_outcome, format_hint,
                   context_reduction, result>>

\* the dispatch on settings.llm_provider and the request of the provider function: an
\* unknown provider ends the call, a missing API key ends the provider function before
\* any request, and a request ends in one of the outcomes
CallProvider ==
    /\ pipeline_pc = "prompted"
    /\ IF settings.llm_provider \notin {ollama, openai, gemini, deepseek}
       THEN /\ result' = Failure(<<"U","n","k","n","o","w","n"," ","L","L","M"," ","p","r","o","v","i","d","e","r",":"," ">> \o settings.llm_provider)
            /\ pipeline_pc' = "returned"
            /\ UNCHANGED <<llm_response, raw_response, provider_outcome, format_hint, steps>>
       ELSE IF settings.llm_provider # ollama /\ settings.api_key = <<>>
       THEN /\ llm_response' = Failure(KeyMissing(settings.llm_provider))
            /\ pipeline_pc' = "called"
            /\ UNCHANGED <<result, raw_response, provider_outcome, format_hint, steps>>
       ELSE /\ format_hint' = FormatHint(needs_extraction)
            /\ steps' = Append(steps, "provider_call")
            /\ \E outcome \in ProviderOutcomes :
                  /\ provider_outcome' = outcome
                  /\ IF outcome = "answered"
                     THEN /\ \E r \in DOMAIN PipelineRawInputs : raw_response' = PipelineRawInputs[r]
                          /\ pipeline_pc' = "answered"
                          /\ UNCHANGED llm_response
                     ELSE /\ llm_response' = Failure(RequestError(settings.llm_provider, outcome))
                          /\ pipeline_pc' = "called"
                          /\ UNCHANGED raw_response
            /\ UNCHANGED result
    /\ UNCHANGED <<call_vars, given, validated, calls, pruned_schema, model_name, model_type,
                   final_prompt, needs_extraction, extracted, context_reduction>>

\* the provider function turns the text answered into its return value
ProviderExtract ==
    /\ pipeline_pc = "answered"
    /\ \E parsed \in {ParseAnswer(settings, raw_response, needs_extraction)} :
          /\ extracted' = IF parsed.raised THEN NoResult ELSE parsed.value
          /\ llm_response' = Answered(settings, parsed)
    /\ steps' = Append(steps, "extract")
    /\ pipeline_pc' = "called"
    /\ UNCHANGED <<call_vars, given, validated, calls, pruned_schema, model_name, model_type,
                   final_prompt, needs_extraction, raw_response, provider_outcome, format_hint,
                   context_reduction, result>>

\* if not llm_response.get("success", False): return llm_response
ShortCircuit ==
    /\ pipeline_pc = "called"
    /\ ~llm_response.success
    /\ result' = llm_response
    /\ pipeline_pc' = "returned"
    /\ UNCHANGED <<call_vars, llm_response, given, validated, calls, pruned_schema, model_name,
                   model_type, final_prompt, needs_extraction, raw_response, extracted,
                   provider_outcome, format_hint, context_reduction, steps>>

\* layer 3: validated_response = llm_validator.validate_response(llm_response, query_text,
\* pruned_schema)
PipelineValidate ==
    /\ pipeline_pc = "called"
    /\ llm_response.success
    /\ \E out \in {ValidateResponse(llm_response, query_text, pruned_schema)} :
          /\ validated' = out.result
          /\ llm_response' = out.response
    /\ given' = llm_response
    /\ calls' = calls + 1
    /\ steps' = Append(steps, "validate")
    /\ pipeline_pc' = "validated"
    /\ UNCHANGED <<call_vars, pruned_schema, model_name, model_type, final_prompt,
                   needs_extraction, raw_response, extracted, provider_outcome, format_hint,
                   context_reduction, result>>

\* the merge of the validated response into the result returned
PipelineMerge ==
    /\ pipeline_pc = "validated"
    /\ result' = Merged(settings, llm_response, model_type, validated, context_reduction)
    /\ steps' = Append(steps, "merge")
    /\ pipeline_pc' = "returned"
    /\ UNCHANGED <<call_vars, llm_response, given, validated, calls, pruned_schema, model_name,
                   model_type, final_prompt, needs_extraction, raw_response, extracted,
                   provider_outcome, format_hint, context_reduction>>

PipelineNext ==
    \/ PipelinePrune
    \/ PipelineDetect
    \/ PipelineBuild
    \/ CallProvider
    \/ ProviderExtract
    \/ ShortCircuit
    \/ PipelineValidate
    \/ PipelineMerge

SpecPipeline == PipelineInit /\ [][PipelineNext]_vars



(***************************************************************************)
(* Properties of validate_response                                         *)
(***************************************************************************)
Returned == calls > 0
HardFailure == Returned /\ ~validated.validated
OutAnalysis == validated.analysis.v
GivenAnalysis == given["analysis"]
Guardrails == Range(validated.guardrails_applied)
HasWarning(kinds) == \E i \in DOMAIN validated.warnings : validated.warnings[i].kind \in kinds

\* the number of statements of a text: its non-blank parts between semicolons
StatementCount(text) ==
    Cardinality({i \in 1..Len(Split(text, ";")) : Strip(Split(text, ";")[i]) # <<>>})

DenyListed(text) == \E k \in DOMAIN dangerous_keywords : Contains(Upper(text), dangerous_keywords[k])

\* the score of the call does not overflow int(): the call does not fail for that reason
ScoreConverts == GivenAnalysis.t = "dict" /\ DictGet(GivenAnalysis.v, "score", PyNone).t # "inf"

\* C1. The rewrite of the analysis returned is empty, or one SELECT statement: it starts
\* with SELECT, holds exactly one statement and contains no deny-listed keyword.
\* (Fails: a SELECT followed by a second statement passes the checks unchanged.)
C1_RewriteIsOneSelect ==
    Returned =>
        LET rewrite == DictGet(OutAnalysis, "rewrite", PyStr(<<>>))
        IN \/ ~Truthy(rewrite)
           \/ /\ rewrite.t = "str"
              /\ StartsWith(Upper(rewrite.v), <<"S","E","L","E","C","T">>)
              /\ StatementCount(rewrite.v) = 1
              /\ ~DenyListed(rewrite.v)

\* the tables of the schema context and the names present in the query
KnownTables == ExtractSchemaInfo(schema_context).tables \cup ValidatorQueryTables(query_text)

\* C2. For every schema context, an empty or absent one included, each index of the
\* analysis returned whose table is neither in the schema context nor in the query is
\* marked verified = false, and the warnings hold a hallucination warning for its table.
\* (Fails: with an empty or absent schema context no index is checked.)
C2_UnknownTableUnverified ==
    (Returned /\ validated.validated /\ "indexes" \in DOMAIN OutAnalysis) =>
        \A i \in DOMAIN OutAnalysis["indexes"].v :
            LET idx == OutAnalysis["indexes"].v[i].v
                table == Strip(idx["table"].v)
            IN table \notin KnownTables =>
                   /\ idx["verified"] = PyBool(FALSE)
                   /\ \E w \in DOMAIN validated.warnings :
                          validated.warnings[w] = Warning("table_may_not_exist", table)

\* the multiplier of a check, in tenths, as the claim lists them
ClaimedMultiplier(guardrail) ==
    CASE guardrail = "structure_validation" -> 5
      [] guardrail = "score_sanitization" -> 8
      [] guardrail = "bottlenecks_sanitization" -> 9
      [] guardrail = "recommendations_sanitization" -> 9
      [] guardrail = "index_validation" -> 7
      [] guardrail = "sql_validation" -> 6
      [] OTHER -> 10

\* the product of the multipliers of a list of guardrails, in millionths, from 1.0
RECURSIVE ClaimedProduct(_)
ClaimedProduct(guardrails) ==
    IF guardrails = <<>> THEN 1000000
    ELSE (ClaimedProduct(SubSeq(guardrails, 1, Len(guardrails) - 1))
          * ClaimedMultiplier(guardrails[Len(guardrails)])) \div 10

ConfidenceIsProduct ==
    /\ validated.confidence >= 0 /\ validated.confidence <= 1000000
    /\ Cardinality(Guardrails) = Len(validated.guardrails_applied)
    /\ validated.confidence = ClaimedProduct(validated.guardrails_applied)
    /\ (validated.confidence = 1000000 <=> validated.guardrails_applied = <<>>)

\* C3, as stated: in every result, confidence is in [0,1], is the product of the
\* multipliers of the checks that failed, and is 1.0 exactly when no guardrail applied.
\* (Stated on the calls whose score does not overflow; it fails on the hard failure, whose
\* confidence is 0.0.)
C3_Original_ConfidenceIsProduct == (Returned /\ ScoreConverts) => ConfidenceIsProduct

\* C3, amended: in every result that is not the hard failure, confidence is in [0,1], is
\* the product of the multipliers of exactly the guardrails applied, and is 1.0 exactly
\* when none applied; the hard failure has confidence 0.0 and the one guardrail
\* error_fallback.
C3_ConfidenceIsProduct ==
    Returned =>
        IF validated.validated THEN ConfidenceIsProduct
        ELSE validated.confidence = 0 /\ validated.guardrails_applied = <<"error_fallback">>

\* a result where several checks failed, among them the index and the rewrite checks
C3_Witness ==
    /\ Returned /\ validated.validated
    /\ {"structure_validation", "index_validation", "sql_validation"} \subseteq Guardrails
    /\ validated.confidence = 210000

\* C4. Confidence does not increase in the set of guardrails that fire: of two responses
\* validated against the same query and schema, the one whose guardrails include the
\* other's has a confidence that is no higher.
C4_ConfidenceMonotone ==
    (Returned /\ other_validated # NoResult) =>
        /\ Range(other_validated.guardrails_applied) \subseteq Guardrails
              => validated.confidence <= other_validated.confidence
        /\ Guardrails \subseteq Range(other_validated.guardrails_applied)
              => other_validated.confidence <= validated.confidence

\* a response without score and with a DROP rewrite, against the same without the rewrite
C4_Witness ==
    /\ calls = 1 /\ other_validated # NoResult
    /\ "score" \notin DOMAIN GivenAnalysis.v
    /\ DictGet(GivenAnalysis.v, "rewrite", PyNone) = PyStr(sql_drop)
    /\ other_validated.analysis.v = Without(OutAnalysis, "rewrite")
    /\ Range(other_validated.guardrails_applied) = Guardrails \ {"sql_validation"}
    /\ "sql_validation" \in Guardrails
    /\ validated.confidence < other_validated.confidence

ScoreIsPercent(analysis) ==
    /\ "score" \in DOMAIN analysis
    /\ analysis["score"].t = "int"
    /\ analysis["score"].v >= 0 /\ analysis["score"].v <= 100

\* C5. In every result, whatever the score given (missing, not numeric, out of range,
\* infinite), the analysis returned carries a score that is an integer in [0,100].
\* (Stated on the responses without indexes, where only the score can make the call
\* fail; it fails on an infinite score.)
C5_ScoreIsPercent ==
    (Returned /\ GivenAnalysis.t = "dict" /\ "indexes" \notin DOMAIN GivenAnalysis.v) =>
        ScoreIsPercent(OutAnalysis)

ScorePenalty ==
    /\ HasWarning({"score_invalid_or_missing"})
    /\ "score_sanitization" \in Guardrails
    /\ validated.confidence <= 800000

\* C6. A score that converts to an integer outside [0,100] is clamped to the nearest
\* bound, with a warning, the score_sanitization guardrail and the 0.8 multiplier; a
\* missing or non-convertible score becomes 50 with the same penalty.
\* (Stated on the responses without indexes; it fails on an infinite score, which int()
\* cannot convert and which ends in the hard failure instead of 50.)
C6_ScoreSanitized ==
    (Returned /\ GivenAnalysis.t = "dict" /\ "indexes" \notin DOMAIN GivenAnalysis.v) =>
        LET score == DictGet(GivenAnalysis.v, "score", PyNone)
            n == IntOf(score)
        IN /\ (score.t # "none" /\ n.err = "none" /\ n.v > 100) =>
                  (ScoreIsPercent(OutAnalysis) /\ OutAnalysis["score"].v = 100 /\ ScorePenalty)
           /\ (score.t # "none" /\ n.err = "none" /\ n.v < 0) =>
                  (ScoreIsPercent(OutAnalysis) /\ OutAnalysis["score"].v = 0 /\ ScorePenalty)
           /\ (score.t = "none" \/ n.err # "none") =>
                  (ScoreIsPercent(OutAnalysis) /\ OutAnalysis["score"].v = 50 /\ ScorePenalty)

\* the rewrite given is a text that the safety gate rejects
UnsafeRewriteGiven ==
    /\ GivenAnalysis.t = "dict"
    /\ "rewrite" \in DOMAIN GivenAnalysis.v
    /\ GivenAnalysis.v["rewrite"].t = "str"
    /\ Strip(GivenAnalysis.v["rewrite"].v) # <<>>
    /\ \/ ~StartsWith(Upper(Strip(GivenAnalysis.v["rewrite"].v)), <<"S","E","L","E","C","T">>)
       \/ DenyListed(GivenAnalysis.v["rewrite"].v)

\* the rewrite returned is empty, with a warning, and the other fields are those of the
\* same response validated without its rewrite
UnsafeRewriteDiscarded ==
    /\ "rewrite" \in DOMAIN OutAnalysis
    /\ OutAnalysis["rewrite"] = PyStr(<<>>)
    /\ HasWarning({"rewrite_not_select", "rewrite_dangerous_keyword"})
    /\ Without(OutAnalysis, "rewrite")
         = ValidateResponse(DictSet(given, "analysis", PyDict(Without(GivenAnalysis.v, "rewrite"))),
                            query_text, schema_context).result.analysis.v

\* C7, as stated: a rewrite that does not start with SELECT or contains a deny-listed
\* keyword is replaced by the empty string, with a warning, whatever the validity of the
\* other fields, which are sanitized as they would be without the rewrite.
\* (Stated on the calls whose score does not overflow; it fails when an index of the same
\* response makes the call end in the hard failure, whose analysis is empty.)
C7_Original_UnsafeRewriteDiscarded ==
    (Returned /\ ScoreConverts /\ UnsafeRewriteGiven) => UnsafeRewriteDiscarded

\* C7, amended: in every result that is not the hard failure, such a rewrite is replaced
\* by the empty string, with a warning, and the other fields are sanitized as they would
\* be without the rewrite; the hard failure carries no rewrite at all.
C7_UnsafeRewriteDiscarded ==
    (Returned /\ UnsafeRewriteGiven) =>
        IF validated.validated THEN UnsafeRewriteDiscarded
        ELSE "rewrite" \notin DOMAIN OutAnalysis

\* DROP TABLE users discarded from a response whose score and indexes are invalid too
C7_Witness ==
    /\ Returned /\ validated.validated /\ calls = 1
    /\ GivenAnalysis.t = "dict"
    /\ DictGet(GivenAnalysis.v, "rewrite", PyNone) = PyStr(sql_drop)
    /\ DictGet(GivenAnalysis.v, "score", PyNone) = PyInt(150)
    /\ "index_validation" \in Guardrails
    /\ OutAnalysis["rewrite"] = PyStr(<<>>)

(***************************************************************************)
(* Properties of prune_schema_context                                      *)
(***************************************************************************)
\* the first position at or after i that ends a line of the text
LineEnd(text, i) ==
    LET ends == {j \in i..(Len(text) + 1) : j = Len(text) + 1 \/ text[j] = "\n"}
    IN CHOOSE j \in ends : \A k \in ends : j <= k

\* the names of the table blocks of a schema string: what follows "Table: " on the lines
\* that start with it
BlockTables(text) ==
    {SubSeq(text, i + 7, LineEnd(text, i + 7) - 1) :
        i \in {j \in 1..Len(text) : (j = 1 \/ text[j - 1] = "\n") /\ MatchAt(text, j, <<"T","a","b","l","e",":"," ">>)}}

CatalogTables == {full_schema[i][1] : i \in DOMAIN full_schema}
Lowered(names) == {Lower(n) : n \in names}

\* the tables each query of the model references, lower-cased
ReferencedTables(text) ==
    CASE text \in {sql_users_by_id, sql_self_join} -> {<<"u","s","e","r","s">>}
      [] text \in {sql_join, sql_subquery, sql_broken, sql_broken_list} -> {<<"u","s","e","r","s">>, <<"o","r","d","e","r","s">>}
      [] text = sql_from_orders -> {<<"o","r","d","e","r","s">>}
      [] text = sql_ghost -> {<<"g","h","o","s","t","_","t","a","b","l","e">>}
      [] OTHER -> {}

PlanTables == IF Truthy(execution_plan) THEN ExtractTablesFromExplain(execution_plan) ELSE {}

\* C8. Whenever prune returns normally, every table named in a table block of its output
\* is, compared case-insensitively, a table of the catalog.
C8_PrunedWithinCatalog ==
    pruner_pc = "returned" => Lowered(BlockTables(pruned_schema)) \subseteq Lowered(CatalogTables)

\* a pruned output that leaves out a referenced table the catalog does not hold
C8_Witness ==
    /\ pruner_pc = "returned"
    /\ query = sql_ghost
    /\ full_schema = catalog_shop
    /\ execution_plan = PlanInputs[3]
    /\ BlockTables(pruned_schema) = {<<"o","r","d","e","r","s">>}

\* what C9 says of one call: the tables of the output are the catalog tables among the
\* given names and the tables of the plan
PrunedIs(names) == Lowered(BlockTables(pruned_schema)) = Lowered(CatalogTables) \cap (names \cup PlanTables)

C10_EmptyGivesFullSchema ==
    (pruner_pc = "returned" /\ RelevantTables(query, execution_plan) = {}) =>
        CatalogTables \subseteq BlockTables(pruned_schema)

\* SELECT 1 against the catalog of three tables
C10_Witness ==
    /\ pruner_pc = "returned"
    /\ query = sql_select_1
    /\ full_schema = catalog_shop
    /\ BlockTables(pruned_schema) = {<<"u","s","e","r","s">>, <<"O","r","d","e","r","s">>, <<"p","r","o","d","u","c","t","s">>}

\* C11. prune never raises to its caller: for every query text, every catalog (one with
\* a column without a name included) and every plan, the call returns a string.
\* (Fails: the except clause formats the full schema outside the try, and that raises
\* again on the malformed entry.)
C11_PruneNeverRaises == pruner_pc # "raised"


(***************************************************************************)
(* Properties of the model router                                          *)
(***************************************************************************)
\* some pattern of the list is a substring of the lower-cased model name
HasPattern(list) == \E i \in DOMAIN list : Contains(Lower(model_name), list[i])

\* C12. classify matches case-insensitively by substring, the reasoning patterns first: a
\* model name with a reasoning pattern is Reasoning even if it holds a standard pattern
\* too, one with a standard pattern and no reasoning pattern is Standard, one with
\* neither is Unknown.
C12_ClassifyReasoningFirst ==
    router_pc # "start" =>
        /\ HasPattern(reasoning_models) => model_type = "reasoning"
        /\ (HasPattern(standard_models) /\ ~HasPattern(reasoning_models)) => model_type = "standard"
        /\ (~HasPattern(standard_models) /\ ~HasPattern(reasoning_models)) => model_type = "unknown"

\* qwen-qwq holds the standard pattern qwen and the reasoning pattern qwq
C12_Witness ==
    /\ router_pc = "detected"
    /\ model_name = <<"q","w","e","n","-","q","w","q">>
    /\ model_type = "reasoning"


\* extract_response has run under the Reasoning profile
ReasoningRun == router_pc \in {"extracted", "raised"} /\ model_type = "reasoning"

\* extract_response has run under the Standard or the Unknown profile
StandardRun == router_pc \in {"extracted", "raised"} /\ model_type \in {"standard", "unknown"}

\* the raw responses of the model with a marker pair around a JSON object: the object
TaggedObject ==
    CASE raw_response \in {raw_tagged, raw_tagged_lower, raw_tagged_spaced} -> PyDict([score |-> PyInt(80)])
      [] raw_response = raw_tagged_reasoned ->
            PyDict([score |-> PyInt(45), reasoning |-> PyStr(<<"k","e","p","t">>)])
      [] OTHER -> PyNone

\* and the text that precedes the opening marker, without the blanks around it
TaggedPreceding ==
    CASE raw_response = raw_tagged -> <<"r","e","a","s","o","n","i","n","g"," ","t","e","x","t",".",".",".">>
      [] raw_response = raw_tagged_reasoned -> <<"t","h","i","n","k","i","n","g">>
      [] raw_response = raw_tagged_spaced -> <<"t","h","i","n","k">>
      [] OTHER -> <<>>

\* C14 as stated. Under the Reasoning profile, for a raw text with a marker pair whose
\* interior parses as a JSON object, extract returns that object; if it has no reasoning
\* field the field is set to the text preceding the opening marker, and an existing
\* reasoning field is never overwritten.
\* (Fails when no text precedes the marker: the field is not set at all.)
C14_Original_TaggedObjectExtracted ==
    (ReasoningRun /\ TaggedObject # PyNone) =>
        /\ router_pc = "extracted"
        /\ extracted = IF "reasoning" \in DOMAIN TaggedObject.v THEN TaggedObject
                       ELSE PyDict(DictSet(TaggedObject.v, "reasoning", PyStr(TaggedPreceding)))

\* C14, amended. Under the Reasoning profile, for a raw text with a marker pair whose
\* interior parses as a JSON object, extract returns that object; if it has no reasoning
\* field and the text preceding the opening marker, stripped, is not empty, the field is
\* set to that stripped text; with no preceding text the object is returned as it is; an
\* existing reasoning field is never overwritten.
C14_TaggedObjectExtracted ==
    (ReasoningRun /\ TaggedObject # PyNone) =>
        /\ router_pc = "extracted"
        /\ extracted = IF "reasoning" \in DOMAIN TaggedObject.v \/ TaggedPreceding = <<>> THEN TaggedObject
                       ELSE PyDict(DictSet(TaggedObject.v, "reasoning", PyStr(TaggedPreceding)))

\* the example of the specification: the reasoning is the text before the marker
C14_Witness ==
    /\ ReasoningRun
    /\ raw_response = raw_tagged
    /\ extracted = PyDict([score |-> PyInt(80), reasoning |-> PyStr(<<"r","e","a","s","o","n","i","n","g"," ","t","e","x","t",".",".",".">>)])

\* the raw responses of the model with two balanced JSON objects and no marker: the last
\* complete object
LastObject ==
    CASE raw_response \in {raw_two_objects, raw_two_then_braces} ->
            PyDict([score |-> PyInt(45), reasoning |-> PyStr(<<"k","e","p","t">>)])
      [] raw_response = raw_two_indexed ->
            PyDict([score |-> PyInt(70), indexes |-> PyList(<<PyDict([table |-> PyStr(<<"u","s","e","r","s">>)])>>)])
      [] raw_response = raw_two_deep ->
            PyDict([score |-> PyInt(60),
                    meta |-> PyDict([plan |-> PyDict([type |-> PyStr(<<"A","L","L">>)])])])
      [] OTHER -> PyNone

\* the value extracted is the object, with or without a reasoning field added to it
IsObject(object) ==
    /\ router_pc = "extracted"
    /\ extracted.t = "dict"
    /\ \/ extracted = object
       \/ "reasoning" \notin DOMAIN object.v /\ Without(extracted.v, "reasoning") = object.v

\* C15. Under the Reasoning profile, for a raw text with no marker tags and two or more
\* balanced JSON objects, extract returns the last complete object, not an earlier one.
\* (Fails: the pattern follows one level of nesting only, so of a last object nested
\* deeper a fragment is returned.)
C15_LastObjectExtracted == (ReasoningRun /\ LastObject # PyNone) => IsObject(LastObject)

\* C16. Under the Standard or Unknown profile, for a raw text that is not JSON itself,
\* extract falls back to the same scan as the Reasoning path: of two balanced JSON
\* objects separated by prose it returns the last, and the error record only when no
\* object is found.
\* (Fails: the fallback matches from the first "{" to the last "}", which is no JSON.)
C16_StandardFallsBackToScan == (StandardRun /\ LastObject # PyNone) => IsObject(LastObject)

\* the raw responses of the model in which no JSON can be located
NoJson == raw_response \in {<<>>, raw_prose, raw_long}

\* the error record: a message and the first 500 characters of the raw response at most
IsErrorRecord ==
    /\ extracted.t = "dict"
    /\ DOMAIN extracted.v = {"error", "raw"}
    /\ extracted.v["error"].t = "str" /\ extracted.v["error"].v # <<>>
    /\ extracted.v["raw"].t = "str"
    /\ Len(extracted.v["raw"].v) <= 500
    /\ extracted.v["raw"].v = SubSeq(raw_response, 1, Len(extracted.v["raw"].v))
    /\ Len(extracted.v["raw"].v) = 500 \/ extracted.v["raw"].v = raw_response

\* C17. extract never raises, for any raw text and any profile: when no JSON can be
\* located it returns the error record, and in every other case a mapping.
\* (Fails: under the Reasoning profile a marker pair around a JSON list or number, with
\* text before it, ends in a TypeError.)
C17_ExtractNeverRaises ==
    /\ router_pc # "raised"
    /\ router_pc = "extracted" => extracted.t = "dict" /\ (NoJson => IsErrorRecord)


(***************************************************************************)
(* Properties of analyze_query                                             *)
(***************************************************************************)
\* analyze_query has taken the step
Done(step) == \E i \in DOMAIN steps : steps[i] = step

\* C13. build_prompt returns needs_extraction = true exactly for the Reasoning profile;
\* for Unknown it returns the prompt and the needs_extraction = false it returns for
\* Standard; and the pipeline sends the JSON format hint to the provider exactly when
\* needs_extraction is false.
C13_HintUnlessExtraction ==
    /\ Done("build_prompt") =>
          /\ needs_extraction <=> model_type = "reasoning"
          /\ model_type = "unknown" =>
                /\ final_prompt = BuildPrompt("standard", BuildBaseContext(query_text, pruned_schema)).prompt
                /\ needs_extraction = BuildPrompt("standard", <<>>).needs_extraction
                /\ ~needs_extraction
    /\ Done("provider_call") => (format_hint = "json" <=> ~needs_extraction)
    /\ ~Done("provider_call") => format_hint = "unsent"

\* a reasoning model is asked without the hint, and its answer goes through extraction
C13_Witness ==
    /\ Done("extract")
    /\ model_type = "reasoning"
    /\ needs_extraction
    /\ format_hint = "none"

\* C18. analyze_query never raises: for every input and every outcome of the provider
\* (a text, a status other than 200, a network error, a timeout, an unknown provider) it
\* returns a result with a success flag, and every failure result carries an error
\* message.
\* (Fails: after a timeout of ollama or deepseek the error message is the empty string.)
C18_FailureCarriesMessage ==
    pipeline_pc = "returned" =>
        /\ "success" \in DOMAIN result
        /\ result.success \in BOOLEAN
        /\ ~result.success =>
              /\ "error" \in DOMAIN result
              /\ result.error.t = "str"
              /\ result.error.v # <<>>

\* the request ended without an answer of status 200
ProviderFailed == provider_outcome \in {"status", "network", "timeout"}

\* C19. When the provider call fails the pipeline short-circuits: the validator is never
\* invoked, and the result is a provider-failure result (success = false with an error,
\* no analysis, no confidence), which differs from a validation failure (success = true
\* with validated = false and confidence 0.0).
C19_ProviderFailureShortCircuits ==
    /\ ProviderFailed =>
          /\ calls = 0
          /\ validated = NoResult
          /\ ~Done("validate")
          /\ pipeline_pc = "returned" =>
                /\ result.success = FALSE
                /\ "error" \in DOMAIN result
                /\ DOMAIN result \cap {"analysis", "confidence", "validated"} = {}
    /\ (pipeline_pc = "returned" /\ validated # NoResult /\ ~validated.validated) =>
          /\ result.success = TRUE
          /\ result.validated = FALSE
          /\ result.confidence = 0

\* a status other than 200 has ended the call without validation
C19_Witness ==
    /\ pipeline_pc = "returned"
    /\ provider_outcome = "status"
    /\ result = Failure(RequestError(settings.llm_provider, "status"))
    /\ calls = 0

\* C20. An extraction failure does not end the pipeline: whenever the provider call
\* succeeds and no JSON can be located in the text answered, for every provider and
\* every profile, the pipeline goes on to validation and returns a success result with a
\* confidence and warnings, not a provider-failure result.
\* (Fails: openai, gemini and deepseek parse with json.loads alone when the prompt asked
\* for no extraction, and its exception makes a provider failure.)
C20_ExtractionFailureContinues ==
    (provider_outcome = "answered" /\ NoJson /\ pipeline_pc \in {"called", "validated", "returned"}) =>
        /\ llm_response.success
        /\ pipeline_pc = "returned" =>
              /\ calls = 1
              /\ result.success
              /\ {"confidence", "warnings"} \subseteq DOMAIN result


(***************************************************************************)
(* Further properties of validate_response                                 *)
(***************************************************************************)
\* an index mapping of the list has a table that is no string
TableNotText(indexes) ==
    /\ indexes.t = "list"
    /\ \E i \in DOMAIN indexes.v :
          /\ indexes.v[i].t = "dict"
          /\ {"table", "columns"} \subseteq DOMAIN indexes.v[i].v
          /\ indexes.v[i].v["table"].t # "str"

\* the response given makes a statement of validate_response raise: the analysis is no
\* mapping, the score is an infinite float, or an index table is no string
Raises ==
    \/ GivenAnalysis.t # "dict"
    \/ DictGet(GivenAnalysis.v, "score", PyNone).t = "inf"
    \/ /\ "indexes" \in DOMAIN GivenAnalysis.v
       /\ TableNotText(GivenAnalysis.v["indexes"])

\* C21. When an exception occurs inside validate (the analysis is no mapping, an index
\* table is no string, ...), validate does not raise and returns exactly validated = false,
\* confidence 0.0, one error warning and an empty analysis; in every other case it
\* returns validated = true with the sanitized analysis.
C21_HardFailureOnException ==
    Returned =>
        IF Raises
        THEN /\ validated.validated = FALSE
             /\ validated.confidence = 0
             /\ Len(validated.warnings) = 1
             /\ validated.warnings[1].kind = "validation_error"
             /\ validated.analysis = PyDict(EmptyDict)
        ELSE /\ validated.validated = TRUE
             /\ validated.analysis.t = "dict"
             /\ validated.analysis = llm_response["analysis"]
             /\ OutAnalysis["score"].t = "int"
             /\ OutAnalysis["bottlenecks"].t = "list"
             /\ OutAnalysis["recommendations"].t = "list"

\* the table of the second index is the number 5: the hard failure
C21_Witness ==
    /\ Returned
    /\ GivenAnalysis.t = "dict"
    /\ "indexes" \in DOMAIN GivenAnalysis.v
    /\ TableNotText(GivenAnalysis.v["indexes"])
    /\ validated.validated = FALSE
    /\ validated.confidence = 0


\* C22. Every check that fails in validate appends its guardrail id and at least one
\* warning: in every result, whenever guardrails_applied is not empty (confidence below
\* 1.0), warnings is not empty, also when the only failure is a bottlenecks or
\* recommendations field that is no list or has more than 10 items.
\* (Fails: the two list checks append their guardrail and no warning.)
C22_GuardrailHasWarning ==
    Returned =>
        /\ validated.guardrails_applied # <<>> => validated.warnings # <<>>
        /\ validated.confidence < ConfidenceOne => validated.warnings # <<>>


\* the tables a sample text reads (the validator works on the names sqlparse finds,
\* which include the columns selected)
TablesOf(text) ==
    CASE text \in {sql_users_by_id, sql_id_from_users, sql_columns_users, sql_updated_at} -> {<<"u","s","e","r","s">>}
      [] text = sql_join -> {<<"u","s","e","r","s">>, <<"O","r","d","e","r","s">>}
      [] text = sql_from_orders -> {<<"o","r","d","e","r","s">>}
      [] text = sql_columns_customers -> {<<"c","u","s","t","o","m","e","r","s">>}
      [] OTHER -> {}

\* the rewrite of the response given
GivenRewrite == DictGet(GivenAnalysis.v, "rewrite", PyNone)

\* the safety gate: the text starts with SELECT and holds no deny-listed keyword
PassesGate(text) == StartsWith(Upper(Strip(text)), <<"S","E","L","E","C","T">>) /\ ~DenyListed(text)

\* the share of the tables the two sets have in common is below 0.5
Drift(original, rewrite) ==
    /\ original # {} /\ rewrite # {}
    /\ 2 * Cardinality(original \cap rewrite) < Cardinality(original \cup rewrite)

\* C23. Equivalence drift only warns: a rewrite that passes the safety gate and whose
\* table-set overlap with the original query is below 0.5 is kept in the output, with a
\* warning, the sql_validation guardrail and the 0.6 multiplier; only safety violations
\* empty the rewrite.
\* (Fails: the overlap is taken over the names sqlparse finds, columns included, so a
\* rewrite that reads another table through the same columns gets no warning.)
C23_DriftOnlyWarns ==
    (Returned /\ validated.validated /\ GivenRewrite.t = "str" /\ PassesGate(GivenRewrite.v)) =>
        /\ OutAnalysis["rewrite"] = PyStr(Strip(GivenRewrite.v))
        /\ Drift(TablesOf(query_text), TablesOf(Strip(GivenRewrite.v))) =>
              /\ HasWarning({"rewrite_differs"})
              /\ "sql_validation" \in Guardrails
              /\ validated.confidence = ClaimedProduct(validated.guardrails_applied)


\* a list of at most max_items texts, each non-empty and without surrounding whitespace
TrimmedList(value) ==
    /\ value.t = "list"
    /\ Len(value.v) <= max_items
    /\ \A i \in DOMAIN value.v :
          /\ value.v[i].t = "str"
          /\ value.v[i].v # <<>>
          /\ Strip(value.v[i].v) = value.v[i].v

\* C24. In every result that is no hard failure, bottlenecks and recommendations are each
\* a list of at most 10 non-empty trimmed strings, whatever the input was (a list with
\* empty or padded items, a bare string, another type, or missing).
C24_ListsAreTrimmed ==
    (Returned /\ validated.validated) =>
        /\ TrimmedList(OutAnalysis["bottlenecks"])
        /\ TrimmedList(OutAnalysis["recommendations"])

(***************************************************************************)
(* Further properties of prune_schema_context                              *)
(***************************************************************************)
PlanKeys == {"query_block", "nested_loop", "ordering_operation", "grouping_operation"}

\* the tables a plan names, lower-cased: the table of a flat row, the table_name of a
\* table of the JSON format, and those of the blocks below, at any depth
RECURSIVE PlanNames(_)
PlanNames(value) ==
    CASE value.t = "list" -> UNION {PlanNames(value.v[i]) : i \in DOMAIN value.v}
      [] value.t = "dict" ->
            (IF "table" \notin DOMAIN value.v THEN {}
             ELSE IF value.v["table"].t = "str" THEN {Lower(value.v["table"].v)} \ {<<>>}
             ELSE IF value.v["table"].t = "dict" /\ "table_name" \in DOMAIN value.v["table"].v
             THEN {Lower(value.v["table"].v["table_name"].v)}
             ELSE {})
            \cup UNION {PlanNames(value.v[k]) : k \in PlanKeys \cap DOMAIN value.v}
      [] OTHER -> {}

\* C25. When a plan is given, every table it names (the table of a flat row, or a table
\* under query_block reached through nested_loop, ordering_operation and
\* grouping_operation at any depth) that exists in the catalog appears in prune's
\* output, even when the query text does not mention it.
C25_PlanTablesKept ==
    (pruner_pc = "returned" /\ execution_plan # PyNone) =>
        (PlanNames(execution_plan) \cap Lowered(CatalogTables)) \subseteq Lowered(BlockTables(pruned_schema))

(***************************************************************************)
(* validate_response given the output of prune_schema_context              *)
(***************************************************************************)
\* the names of the columns the catalog holds for a table
CatalogColumns(catalog, table) ==
    UNION {{catalog[i][2].v["columns"].v[c].v["name"].v : c \in DOMAIN catalog[i][2].v["columns"].v} :
              i \in {j \in DOMAIN catalog : catalog[j][1] = table}}

\* an index on a table of the schema string, over columns the catalog holds for it
CatalogIndex(idx, schema_text, catalog) ==
    /\ idx.t = "dict"
    /\ {"table", "columns"} \subseteq DOMAIN idx.v
    /\ idx.v["table"].t = "str"
    /\ idx.v["table"].v \in BlockTables(schema_text)
    /\ idx.v["columns"].t = "list"
    /\ idx.v["columns"].v # <<>>
    /\ \A c \in DOMAIN idx.v["columns"].v :
          /\ idx.v["columns"].v[c].t = "str"
          /\ idx.v["columns"].v[c].v \in CatalogColumns(catalog, idx.v["table"].v)

\* what prune returns for the query of the call and the catalog of users, Orders and
\* products
PrunedShop == PruneSchemaContext(query_text, catalog_shop, PyNone).text

\* C26. End to end, when validate is given the string prune produced for a catalog, an
\* index whose table is in that pruned schema and whose columns are all columns of that
\* table in the catalog is marked verified = true, produces no warning and does not
\* fire the index_validation guardrail.
C26_CatalogIndexVerified ==
    (/\ Returned
     /\ validated.validated
     /\ DictGet(GivenAnalysis.v, "indexes", PyNone).t = "list"
     /\ GivenAnalysis.v["indexes"].v # <<>>
     /\ schema_context = PyStr(PrunedShop)
     /\ \A i \in DOMAIN GivenAnalysis.v["indexes"].v :
           CatalogIndex(GivenAnalysis.v["indexes"].v[i], PrunedShop, catalog_shop)) =>
        /\ "index_validation" \notin Guardrails
        /\ ~HasWarning({"table_may_not_exist", "columns_do_not_exist"})
        /\ \A i \in DOMAIN OutAnalysis["indexes"].v :
              /\ DictGet(OutAnalysis["indexes"].v[i].v, "verified", PyNone) = PyBool(TRUE)
              /\ "warning" \notin DOMAIN OutAnalysis["indexes"].v[i].v

\* C27. validate is a pure function of its arguments: after a call the response mapping
\* the caller passed (its analysis mapping and each index mapping inside it) is as it
\* was before the call.
C27_ResponseUnchanged ==
    Returned => llm_response = given

(***************************************************************************)
(* Further properties of extract_response                                  *)
(***************************************************************************)
\* the one object of the raw response made of prose and an object nested three levels
DeepObject ==
    PyDict([score |-> PyInt(60), meta |-> PyDict([plan |-> PyDict([type |-> PyStr(<<"A","L","L">>)])])])

\* C28. The balanced-brace scan matches braces at any nesting depth: under the Reasoning
\* profile, for a raw text made of prose followed by one JSON object whose braces nest
\* three levels deep, and no marker tags, extract returns that whole outermost object,
\* never one of its inner objects.
C28_DeepObjectWhole == (ReasoningRun /\ raw_response = raw_deep) => IsObject(DeepObject)

(***************************************************************************)
(* The order of the steps of analyze_query                                 *)
(***************************************************************************)
StepOrder == <<"prune", "classify", "build_prompt", "provider_call", "extract", "validate", "merge">>

StepPosition(step) == CHOOSE i \in DOMAIN StepOrder : StepOrder[i] = step

\* the steps taken are steps of the sequence, in its order, each at most once
StepsInOrder ==
    /\ Range(steps) \subseteq Range(StepOrder)
    /\ \A i, j \in DOMAIN steps : i < j => StepPosition(steps[i]) < StepPosition(steps[j])

\* C29. In every run of the analysis pipeline the steps occur in the order prune,
\* classify, build prompt, provider call, extract, validate, merge; the provider is
\* invoked at most once per call (no retry after a failure); and validate is invoked
\* only after a successful provider call, and with the same pruned schema that was put in
\* the prompt.
C29_StepsInOrder ==
    /\ StepsInOrder
    /\ Done("build_prompt") => Done("classify")
    /\ Done("provider_call") => Done("build_prompt")
    /\ Done("extract") => Done("provider_call") /\ provider_outcome = "answered"
    /\ Done("validate") =>
          /\ Done("extract")
          /\ given.success
          /\ calls = 1
          /\ validated = ValidateResponse(given, query_text, pruned_schema).result
          /\ Truthy(pruned_schema) => Contains(final_prompt, pruned_schema.v)
          /\ ~Truthy(pruned_schema) => ~Contains(final_prompt, <<"#","#"," ","S","c","h","e","m","a"," ","C","o","n","t","e","x","t"," ","(","T","a","b","l","e","s"," ","a","n","d"," ","C","o","l","u","m","n","s",")",":">>)
    /\ Done("merge") => Done("validate") /\ pipeline_pc = "returned"
    /\ (pipeline_pc = "returned" /\ provider_outcome \in {"status", "network", "timeout"}) =>
          steps \in {<<"classify", "build_prompt", "provider_call">>,
                     <<"prune", "classify", "build_prompt", "provider_call">>}

\* a whole run: the index on users(id) the provider answered is checked against the
\* pruned schema of the prompt, not against the schema context of the caller
C29_Witness ==
    /\ pipeline_pc = "returned"
    /\ steps = StepOrder
    /\ full_schema = catalog_shop
    /\ schema_context = PyStr(schema_one_line)
    /\ raw_response = json_index_users
    /\ pruned_schema # schema_context
    /\ Contains(final_prompt, pruned_schema.v)
    /\ "index_validation" \in Range(validated.guardrails_applied)
    /\ validated # ValidateResponse(given, query_text, schema_context).result

(***************************************************************************)
(* The metrics of estimate_context_reduction                               *)
(***************************************************************************)
\* the number of table blocks of the pruned schema
PrunedCount == Cardinality(BlockTables(pruned_schema.v))

\* C30. The metrics of estimate_context_reduction are consistent with prune for the same
\* query and catalog (no plan): relevant_tables is the number of tables in prune's
\* output, tables_removed is total_tables minus that number and never negative, and
\* reduction_percentage lies between 0 and 100, also when the query references tables
\* absent from the catalog or no table at all.
C30_MetricsMatchPrune ==
    context_reduction # PyNone =>
        /\ context_reduction.v["total_tables"] = PyInt(Len(full_schema))
        /\ context_reduction.v["relevant_tables"] = PyInt(PrunedCount)
        /\ context_reduction.v["tables_removed"] = PyInt(Len(full_schema) - PrunedCount)
        /\ context_reduction.v["tables_removed"].v >= 0
        /\ context_reduction.v["reduction_percentage"].v \in 0..1000

====
